---- MODULE Spec2Model ----
(***************************************************************************)
(* Price-data caching pipeline of EquityEase: the Cache Orchestrator       *)
(* (POST /api/stocks/cache), its two stores (daily_prices, price_cache),   *)
(* the symbols registry, the provider adapters it calls (/api/stocks,      *)
(* /api/tiingo) and the Maintenance Sweeper (data-maintenance route).      *)
(*                                                                         *)
(* Every await of the source (a store read, a store write, a provider      *)
(* call) is one step of a process.  Dates are day numbers, day 0 being a   *)
(* Sunday, so that d % 7 is JavaScript's getDay().                         *)
(***************************************************************************)
EXTENDS Integers, Sequences, FiniteSets, TLC

\* ------------------------------------------------------------------------
\* Bounds of the model
\* ------------------------------------------------------------------------
MaxOps == 1                \* operations (requests, sweeper runs) per behaviour
MaxRepeats == 1            \* repetitions of a request after its first run

MaxTargets == 2            \* symbols in a request to the sweeper
Procs == {1, 2}            \* concurrent invocations
SeqProcs == {1}            \* the invocation used when operations do not overlap

SeriesLens == {1, 10, 22}  \* lengths of the non-empty series a provider returns

\* ------------------------------------------------------------------------
\* Program constants
\* ------------------------------------------------------------------------
MinBars == 10              \* Math.min(requiredDays * 0.7, 10)
RatioTenths == 7           \* the 0.7 of the sufficiency rule, in tenths
UpsertDays == 20           \* upsertChartDataForLastDays(..., 20)
TwentyMinutes == 20        \* staleness threshold of price_cache, in minutes
SweepLookback == 5         \* lookbackDays || 5
SweepRefreshDays == 30     \* forceRefreshDays || 30
DailyLookback == 1         \* UPDATE_CONFIG.dailyUpdate.lookbackDays
WeeklyLookback == 180      \* UPDATE_CONFIG.weeklyUpdate.lookbackDays
maxRetries == 3            \* UPDATE_CONFIG.retry.maxRetries
retryDelay == 5000         \* UPDATE_CONFIG.retry.retryDelay, in milliseconds

Tickers == {"TQQQ", "SQQQ", "IXIC"}
ReqTickers == {"TQQQ", "IXIC"}
SYMBOL_ID_MAP == [t \in {"TQQQ", "SQQQ"} |-> IF t = "TQQQ" THEN 1 ELSE 2]
TimeRanges == {"1m", "3m", "6m"}

None == [none |-> TRUE]

\* ------------------------------------------------------------------------
\* Small helpers
\* ------------------------------------------------------------------------
Min(a, b) == IF a <= b THEN a ELSE b
Max(a, b) == IF a >= b THEN a ELSE b

\* JavaScript's a || b on numbers (0 and undefined are falsy)
Or0(a, b) == IF a # 0 THEN a ELSE b

RECURSIVE SeqMax(_)
SeqMax(s) == IF Len(s) = 1 THEN s[1] ELSE Max(s[1], SeqMax(Tail(s)))
RECURSIVE SeqMin(_)
SeqMin(s) == IF Len(s) = 1 THEN s[1] ELSE Min(s[1], SeqMin(Tail(s)))

Range(s) == {s[i] : i \in 1..Len(s)}

\* getDay(): 0 = Sunday ... 6 = Saturday
DayOfWeek(d) == d % 7
IsWeekend(d) == DayOfWeek(d) = 0 \/ DayOfWeek(d) = 6

\* requiredDays / lookbackDays of a timeRange
RequiredDays(tr) == IF tr = "3m" THEN 90 ELSE IF tr = "6m" THEN 180 ELSE 30

\* dailyPrices.length >= Math.min(requiredDays * 0.7, 10), in tenths
SufficientMutAny(len, tr) == len > 0
SufficientMutLoose(len, tr) == len * 10 >= Min(RequiredDays(tr) * RatioTenths, (MinBars - 1) * 10)
Sufficient(len, tr) == len * 10 >= Min(RequiredDays(tr) * RatioTenths, MinBars * 10)

\* ------------------------------------------------------------------------
\* State
\* ------------------------------------------------------------------------
VARIABLES
  symtab,        \* table symbols: ticker -> id (0: no row)
  nextId,        \* the SERIAL of symbols.id
  daily_prices,  \* table daily_prices: a set of rows
  price_cache,   \* table price_cache: a set of rows
  today,         \* new Date().toISOString().split('T')[0], the UTC date
  etToday,       \* the date in America/New_York
  now,           \* Date.now(), in minutes
  feed,          \* what the upstream market-data services hold and how they answer
  pc,            \* per invocation: the await it is suspended at
  req,           \* per invocation: the request being served
  loc,           \* per invocation: its local variables
  resp,          \* per invocation: the record it returned
  calls,         \* per invocation: the provider endpoints fetched, in order
  prev,          \* the request and the record of the last completed invocation
  snap,          \* per invocation: the tables as they were when it started
  opsLeft,       \* operations that may still start
  repeatOnly,    \* TRUE when later operations repeat the previous request
  uniquePoint,   \* TRUE when price_cache has a unique index on symbol_id
  storeDown,     \* TRUE when the database is unreachable: every query returns an error
  batch          \* the HTTP request being handled as a whole, and its response

vars == <<symtab, nextId, daily_prices, price_cache, today, etToday, now, feed,
          pc, req, loc, resp, calls, prev, snap, opsLeft, repeatOnly,
          uniquePoint, storeDown, batch>>
stores == <<symtab, nextId, daily_prices, price_cache>>
clock == <<today, etToday, now, feed, repeatOnly, uniquePoint, storeDown>>
env == <<clock, snap, batch>>

\* ------------------------------------------------------------------------
\* The stores (Supabase / PostgreSQL tables)
\* ------------------------------------------------------------------------
DayMinutes == 1440         \* 24 * 60, the look-back of the price_cache query

\* rows of daily_prices of one symbol with startDay <= as_of_date <= endDay
RowsInRange(table, sid, lo, hi) ==
  {r \in table : r.symbol_id = sid /\ r.as_of_date >= lo /\ r.as_of_date <= hi}

\* .order('as_of_date', { ascending: true })
RECURSIVE SortByDate(_)
SortByDate(S) ==
  IF S = {} THEN <<>>
  ELSE LET m == CHOOSE r \in S : \A q \in S : r.as_of_date <= q.as_of_date
       IN <<m>> \o SortByDate(S \ {m})

HasKey(table, sid, d) == \E r \in table : r.symbol_id = sid /\ r.as_of_date = d
RowAt(table, sid, d) == CHOOSE r \in table : r.symbol_id = sid /\ r.as_of_date = d

\* the columns an upsert sets; created_at is left to its DEFAULT on insert
WithCreated(r, t) == [symbol_id |-> r.symbol_id, as_of_date |-> r.as_of_date,
               open |-> r.open, high |-> r.high, low |-> r.low, close |-> r.close,
               adj_close |-> r.adj_close, volume |-> r.volume, source |-> r.source,
               created_at |-> t]

DistinctKeys(rows) ==
  \A i, j \in 1..Len(rows) :
     (rows[i].symbol_id = rows[j].symbol_id /\ rows[i].as_of_date = rows[j].as_of_date)
        => i = j

\* .upsert(rows, { onConflict: 'symbol_id,as_of_date', ignoreDuplicates: false }):
\* INSERT ... ON CONFLICT (symbol_id, as_of_date) DO UPDATE SET <the columns sent>.
\* A statement that names one key twice fails as a whole.
UpsertRowsMutReinsert(table, rows, t) ==
  IF ~DistinctKeys(rows) THEN table
  ELSE {r \in table : ~\E i \in 1..Len(rows) :
            rows[i].symbol_id = r.symbol_id /\ rows[i].as_of_date = r.as_of_date}
       \cup {WithCreated(rows[i], t) : i \in 1..Len(rows)}
UpsertRowsMutIgnore(table, rows, t) ==
  IF ~DistinctKeys(rows) THEN table
  ELSE table \cup {WithCreated(rows[i], t) : i \in
            {j \in 1..Len(rows) : ~HasKey(table, rows[j].symbol_id, rows[j].as_of_date)}}
UpsertRows(table, rows, t) ==
  IF ~DistinctKeys(rows) THEN table
  ELSE {r \in table : ~\E i \in 1..Len(rows) :
            rows[i].symbol_id = r.symbol_id /\ rows[i].as_of_date = r.as_of_date}
       \cup {WithCreated(rows[i],
                IF HasKey(table, rows[i].symbol_id, rows[i].as_of_date)
                  THEN RowAt(table, rows[i].symbol_id, rows[i].as_of_date).created_at
                  ELSE t) : i \in 1..Len(rows)}

\* .insert(row): refused by PRIMARY KEY (symbol_id, as_of_date) when the key exists
InsertRowMutNoKey(table, row, t) == table \cup {WithCreated(row, t)}
InsertRow(table, row, t) ==
  IF HasKey(table, row.symbol_id, row.as_of_date) THEN table
  ELSE table \cup {WithCreated(row, t)}

\* .update(cols).eq('symbol_id', sid).eq('as_of_date', d)
UpdateRow(table, sid, d, cols) ==
  {IF r.symbol_id = sid /\ r.as_of_date = d
     THEN [r EXCEPT !.open = cols.open, !.high = cols.high, !.low = cols.low,
                    !.close = cols.close, !.adj_close = cols.adj_close,
                    !.volume = cols.volume, !.source = cols.source]
     ELSE r : r \in table}

\* price_cache: .gte('as_of', now - 24h).order('as_of', desc).limit(1).single()
LatestQuote(table, sid, t) ==
  LET S == {r \in table : r.symbol_id = sid /\ r.as_of >= t - DayMinutes}
  IN IF S = {} THEN None
     ELSE CHOOSE r \in S : \A q \in S : q.as_of <= r.as_of

\* select id from symbols where symbol = t: `data` is null (0) when there is no
\* row and when the query fails
SelectId(t) == IF storeDown THEN 0 ELSE symtab[t]

\* ------------------------------------------------------------------------
\* Upstream data and what a fetch of a provider endpoint returns
\* ------------------------------------------------------------------------
\* the live quote of the upstream services
Quote == [price |-> 25, open |-> 24, high |-> 26, low |-> 23]
Volumes == {0, 1500}

\* the upstream bar of day d (today's bar carries the volume traded so far)
FeedBar(d, td, fd) ==
  [date |-> d, open |-> 20 + (d % 3), high |-> 23 + (d % 3), low |-> 19,
   close |-> 21 + (d % 3), volume |-> IF d = td THEN fd.qvol ELSE 1500]

\* the n most recent days the upstream has a bar for, ascending, ending at d;
\* fd.wk: the upstream also labels bars with Saturdays and Sundays
RECURSIVE FeedDates(_, _, _)
FeedDates(d, n, fd) ==
  IF n = 0 \/ d < 0 THEN <<>>
  ELSE IF ~fd.wk /\ IsWeekend(d) THEN FeedDates(d - 1, n, fd)
  ELSE Append(FeedDates(d - 1, n - 1, fd), d)

FeedSeries(n, td, fd) ==
  LET ds == FeedDates(td, n, fd) IN [i \in 1..Len(ds) |-> FeedBar(ds[i], td, fd)]

\* chartData of a provider record: OHLCV arrays (shape "ohlcv") or the
\* { labels, prices, volumes } of a quote point (shape "quote")
ChartOf(bars) ==
  [shape |-> "ohlcv",
   labels |-> [i \in 1..Len(bars) |-> bars[i].date],
   open |-> [i \in 1..Len(bars) |-> bars[i].open],
   high |-> [i \in 1..Len(bars) |-> bars[i].high],
   low |-> [i \in 1..Len(bars) |-> bars[i].low],
   close |-> [i \in 1..Len(bars) |-> bars[i].close],
   volume |-> [i \in 1..Len(bars) |-> bars[i].volume],
   prices |-> <<>>, volumes |-> <<>>]
QuoteChart(td, fd) ==
  [shape |-> "quote", labels |-> <<td>>, open |-> <<>>, high |-> <<>>, low |-> <<>>,
   close |-> <<>>, volume |-> <<>>, prices |-> <<Quote.price>>, volumes |-> <<fd.qvol>>]

\* the record a provider endpoint answers with when its upstream call failed
EmptyData ==
  [currentPrice |-> 0, open |-> 0, high |-> 0, low |-> 0, volume |-> 0,
   chartData |-> ChartOf(<<>>)]

\* /api/stocks: a quote point (n = 1) or a daily series
YahooStock(n, td, fd) ==
  [currentPrice |-> Quote.price, open |-> Quote.open, high |-> Quote.high,
   low |-> Quote.low, volume |-> fd.qvol,
   chartData |-> IF n = 1 THEN QuoteChart(td, fd) ELSE ChartOf(FeedSeries(n, td, fd))]

\* /api/tiingo: a daily series, the record's price and volume taken from its last bar
TiingoStock(n, td, fd) ==
  LET bars == FeedSeries(n, td, fd) IN
  [currentPrice |-> Or0(bars[Len(bars)].close, Quote.price), open |-> Or0(bars[1].open, Quote.open),
   high |-> SeqMax([i \in 1..Len(bars) |-> bars[i].high]),
   low |-> SeqMin([i \in 1..Len(bars) |-> bars[i].low]),
   volume |-> Or0(bars[Len(bars)].volume, fd.qvol),
   chartData |-> ChartOf(bars)]

\* what `await fetch(origin + '/api/stocks')` can deliver: no answer or a non-2xx
\* answer, an empty list, a record without history, a record with history
YahooResponses(td, fd) ==
  (IF "fail" \in fd.faults THEN {[ok |-> FALSE, body |-> <<>>]} ELSE {})
  \cup (IF "empty" \in fd.faults THEN {[ok |-> TRUE, body |-> <<>>]} ELSE {})
  \cup (IF "nohist" \in fd.faults THEN {[ok |-> TRUE, body |-> <<EmptyData>>]} ELSE {})
  \cup {[ok |-> TRUE, body |-> <<YahooStock(n, td, fd)>>] : n \in fd.lens}
TiingoResponses(td, fd) ==
  (IF "fail" \in fd.faults THEN {[ok |-> FALSE, body |-> <<>>]} ELSE {})
  \cup (IF "nohist" \in fd.faults THEN {[ok |-> TRUE, body |-> <<EmptyData>>]} ELSE {})
  \cup {[ok |-> TRUE, body |-> <<TiingoStock(n, td, fd)>>] : n \in fd.lens}

\* chartData.open?.[i] ?? 0
At(s, i) == IF i \in DOMAIN s THEN s[i] ELSE 0

\* the `norm` of the Yahoo-first refresh: open || prices || [], volume || volumes || []
Norm(cd) ==
  [labels |-> cd.labels,
   open |-> IF cd.shape = "ohlcv" THEN cd.open ELSE cd.prices,
   high |-> IF cd.shape = "ohlcv" THEN cd.high ELSE cd.prices,
   low |-> IF cd.shape = "ohlcv" THEN cd.low ELSE cd.prices,
   close |-> IF cd.shape = "ohlcv" THEN cd.close ELSE cd.prices,
   volume |-> IF cd.shape = "ohlcv" THEN cd.volume ELSE cd.volumes]
\* stockData.chartData used as it came
AsIs(cd) ==
  [labels |-> cd.labels, open |-> cd.open, high |-> cd.high, low |-> cd.low,
   close |-> cd.close, volume |-> cd.volume]
NoChart == [labels |-> <<>>, open |-> <<>>, high |-> <<>>, low |-> <<>>,
            close |-> <<>>, volume |-> <<>>]

\* the rows upsertChartDataForLastDays builds: the last `days` labels of chartData
ChartRowsMutAll(sid, cd, source, days) ==
  [k \in 1..Len(cd.labels) |->
      [symbol_id |-> sid, as_of_date |-> cd.labels[k],
       open |-> At(cd.open, k), high |-> At(cd.high, k), low |-> At(cd.low, k),
       close |-> At(cd.close, k), adj_close |-> At(cd.close, k),
       volume |-> At(cd.volume, k), source |-> source]]
ChartRows(sid, cd, source, days) ==
  LET len == Len(cd.labels)
      start == Max(0, len - days)
  IN [k \in 1..(len - start) |->
        LET i == start + k IN
        [symbol_id |-> sid, as_of_date |-> cd.labels[i],
         open |-> At(cd.open, i), high |-> At(cd.high, i), low |-> At(cd.low, i),
         close |-> At(cd.close, i), adj_close |-> At(cd.close, i),
         volume |-> At(cd.volume, i), source |-> source]]

\* the row saveToCache inserts for today, and the columns it updates
DailyData(sid, d, stock, source) ==
  [symbol_id |-> sid, as_of_date |-> d,
   open |-> Or0(stock.open, stock.currentPrice),
   high |-> Or0(stock.high, stock.currentPrice),
   low |-> Or0(stock.low, stock.currentPrice),
   close |-> stock.currentPrice, adj_close |-> stock.currentPrice,
   volume |-> stock.volume, source |-> source]

\* the rows upsertDailyPrices builds from yahooFinance.historical()
SweepRows(sid, prices) ==
  [i \in 1..Len(prices) |->
     [symbol_id |-> sid, as_of_date |-> prices[i].date,
      open |-> prices[i].open, high |-> prices[i].high, low |-> prices[i].low,
      close |-> prices[i].close, adj_close |-> Or0(prices[i].adjClose, prices[i].close),
      volume |-> prices[i].volume, source |-> "yahoo_finance"]]

\* the series the record of a historical or degraded response carries
HistChart(rows) ==
  [labels |-> [i \in 1..Len(rows) |-> rows[i].as_of_date],
   open |-> [i \in 1..Len(rows) |-> rows[i].open],
   high |-> [i \in 1..Len(rows) |-> rows[i].high],
   low |-> [i \in 1..Len(rows) |-> rows[i].low],
   close |-> [i \in 1..Len(rows) |-> rows[i].close],
   volume |-> [i \in 1..Len(rows) |-> rows[i].volume]]

\* the record returned from daily_prices rows (rows is not empty)
HistRecord(sym, rows, source) ==
  LET cd == HistChart(rows)
      latestClose == cd.close[Len(rows)]
  IN [symbol |-> sym, currentPrice |-> latestClose, volume |-> cd.volume[Len(rows)],
      high |-> SeqMax(cd.high), low |-> SeqMin(cd.low),
      open |-> Or0(cd.open[1], latestClose),
      dataSource |-> source, chartData |-> cd]

\* the record returned from a provider's stockData
ProviderRecord(sym, stock, source, cd) ==
  [symbol |-> sym, currentPrice |-> stock.currentPrice, volume |-> stock.volume,
   high |-> stock.high, low |-> stock.low, open |-> stock.open,
   dataSource |-> source, chartData |-> cd]

ErrorRecord(sym) ==
  [symbol |-> sym, currentPrice |-> 0, volume |-> 0, high |-> 0, low |-> 0, open |-> 0,
   dataSource |-> "error", chartData |-> NoChart]

\* ------------------------------------------------------------------------
\* Invocations
\* ------------------------------------------------------------------------
NoStock == [currentPrice |-> 0, open |-> 0, high |-> 0, low |-> 0, volume |-> 0]
StockFields(sd) == [currentPrice |-> sd.currentPrice, open |-> sd.open, high |-> sd.high,
                    low |-> sd.low, volume |-> sd.volume]

InitLoc == [sid |-> 0, daily |-> <<>>, cached |-> None, stock |-> NoStock,
            chart |-> NoChart, src |-> "", usid |-> 0, existing |-> None, ret |-> "",
            missing |-> {}, hist |-> <<>>, delay |-> 0]
NoReq == [kind |-> "none"]
\* no HTTP request is being handled as a whole
NoBatch == [state |-> "none"]

Idle(p) == pc[p] \in {"idle", "done"}

\* the invocation returns `record`
Complete(p, record) ==
  /\ resp' = [resp EXCEPT ![p] = record]
  /\ pc' = [pc EXCEPT ![p] = "done"]
  /\ loc' = [loc EXCEPT ![p] = InitLoc]
  /\ prev' = prev

Goto(p, label) == pc' = [pc EXCEPT ![p] = label]

\* an invocation starts: its locals are fresh; what the previous one did is kept
Begin(p, r, label) ==
  /\ req' = [req EXCEPT ![p] = r]
  /\ opsLeft' = opsLeft - 1
  /\ Goto(p, label)
  /\ loc' = [loc EXCEPT ![p] = InitLoc]
  /\ resp' = [resp EXCEPT ![p] = None]
  /\ calls' = [calls EXCEPT ![p] = <<>>]
  /\ snap' = [snap EXCEPT ![p] = [symtab |-> symtab, daily |-> daily_prices,
                                  cache |-> price_cache]]
  /\ prev' = IF repeatOnly /\ pc[p] = "done"
              THEN [req |-> req[p], resp |-> resp[p], calls |-> calls[p], snap |-> snap[p]]
              ELSE prev
  /\ UNCHANGED <<stores, clock>>

\* POST /api/stocks/cache for one symbol of the request
StartRequest(p, sym, tr, force, rdo) ==
  /\ Idle(p)
  /\ opsLeft > 0
  /\ LET r == [kind |-> "cache", symbol |-> sym, timeRange |-> tr,
               forceRefresh |-> force, refreshDailyOnly |-> rdo]
     IN /\ (repeatOnly /\ pc[p] = "done") => r = req[p]
        /\ Begin(p, r, "lookup")
        /\ batch' = batch

\* the pc after the lookup of the symbol: cache checks, or straight to the providers
AfterLookupMutForce(sid, force) ==
  IF sid # 0 THEN "read_daily" ELSE IF force THEN "tiingo" ELSE "y1"
AfterLookup(sid, force) ==
  IF sid # 0 /\ ~force THEN "read_daily" ELSE IF force THEN "tiingo" ELSE "y1"

\* select id from symbols where symbol = ...
Lookup(p) ==
  /\ pc[p] = "lookup"
  /\ loc' = [loc EXCEPT ![p].sid = SelectId(req[p].symbol)]
  /\ Goto(p, AfterLookup(SelectId(req[p].symbol), req[p].forceRefresh))
  /\ UNCHANGED <<stores, env, req, resp, calls, prev, opsLeft>>

\* select ... from daily_prices in [today - requiredDays, today], ascending
ReadDailyMutRecent(p) ==
  /\ pc[p] = "read_daily"
  /\ loc' = [loc EXCEPT ![p].daily =
        SortByDate(RowsInRange(daily_prices, loc[p].sid, today - 7, today))]
  /\ Goto(p, "read_cache")
  /\ UNCHANGED <<stores, env, req, resp, calls, prev, opsLeft>>
ReadDaily(p) ==
  /\ pc[p] = "read_daily"
  /\ loc' = [loc EXCEPT ![p].daily =
        SortByDate(RowsInRange(daily_prices, loc[p].sid,
                               today - RequiredDays(req[p].timeRange), today))]
  /\ Goto(p, "read_cache")
  /\ UNCHANGED <<stores, env, req, resp, calls, prev, opsLeft>>

\* priceCacheExpired = timeDiff >= twentyMinutes
ExpiredMutStrict(cached, t) == t - cached.as_of > TwentyMinutes
ExpiredMutNever(cached, t) == FALSE
Expired(cached, t) == t - cached.as_of >= TwentyMinutes

\* select ... from price_cache, then the choice of the historical-sufficiency path
ReadCache(p) ==
  /\ pc[p] = "read_cache"
  /\ LET cached == LatestQuote(price_cache, loc[p].sid, now)
         rows == loc[p].daily
         last == rows[Len(rows)]
     IN IF Sufficient(Len(rows), req[p].timeRange)
        THEN IF cached = None \/ Expired(cached, now)
             THEN /\ loc' = [loc EXCEPT ![p].cached = cached,
                               ![p].stock = [NoStock EXCEPT !.currentPrice = last.close],
                               ![p].src = last.source,
                               ![p].ret = "hist_return"]
                  /\ Goto(p, "sc_sym")
                  /\ UNCHANGED <<resp, prev>>
             ELSE Complete(p, HistRecord(req[p].symbol, rows, last.source))
        ELSE /\ loc' = [loc EXCEPT ![p].cached = cached]
             /\ Goto(p, "y1")
             /\ UNCHANGED <<resp, prev>>
  /\ UNCHANGED <<stores, env, req, calls, opsLeft>>

\* the record of the historical-sufficiency path, after the point cache was refreshed
HistReturn(p) ==
  /\ pc[p] = "hist_return"
  /\ Complete(p, HistRecord(req[p].symbol, loc[p].daily,
                            loc[p].daily[Len(loc[p].daily)].source))
  /\ UNCHANGED <<stores, env, req, calls, opsLeft>>

\* ---- saveToCache -------------------------------------------------------
\* select id from symbols / insert into symbols, in saveToCache and in
\* upsertChartDataForLastDays; `found` and `absent` are the pcs that follow
SymSelect(p, at, found, absent) ==
  /\ pc[p] = at
  /\ loc' = [loc EXCEPT ![p].usid = SelectId(req[p].symbol)]
  /\ Goto(p, IF SelectId(req[p].symbol) # 0 THEN found ELSE absent)
  /\ UNCHANGED <<stores, env, req, resp, calls, prev, opsLeft>>

SymInsert(p, at, found, failed) ==
  /\ pc[p] = at
  /\ IF ~storeDown /\ symtab[req[p].symbol] = 0
     THEN /\ symtab' = [symtab EXCEPT ![req[p].symbol] = nextId]
          /\ nextId' = nextId + 1
          /\ loc' = [loc EXCEPT ![p].usid = nextId]
          /\ Goto(p, found)
     ELSE \* symbols.symbol is UNIQUE: the insert is refused, symbolData stays null;
          \* so it does when the database is unreachable
          /\ UNCHANGED <<symtab, nextId, loc>>
          /\ Goto(p, failed)
  /\ UNCHANGED <<daily_prices, price_cache, env, req, resp, calls, prev, opsLeft>>

ScSym(p) == SymSelect(p, "sc_sym", "sc_existing", "sc_symins")
ScSymIns(p) == SymInsert(p, "sc_symins", "sc_existing", loc[p].ret)

\* select as_of_date, volume from daily_prices where as_of_date = today (US Eastern)
ScExisting(p) ==
  /\ pc[p] = "sc_existing"
  /\ loc' = [loc EXCEPT ![p].existing =
        IF HasKey(daily_prices, loc[p].usid, etToday)
          THEN RowAt(daily_prices, loc[p].usid, etToday) ELSE None]
  /\ Goto(p, "sc_daily")
  /\ UNCHANGED <<stores, env, req, resp, calls, prev, opsLeft>>

\* the write of saveToCache to daily_prices: insert, zero-volume update, or skip
SaveDailyMutFixAlways(table, existing, sid, d, stock, source, t) ==
  IF existing = None /\ ~IsWeekend(d) /\ stock.volume > 0
    THEN InsertRow(table, DailyData(sid, d, stock, source), t)
  ELSE IF existing # None /\ ~IsWeekend(d) /\ existing.volume = 0
    THEN UpdateRow(table, sid, d, DailyData(sid, d, stock, source))
  ELSE table
SaveDailyMutWeekend(table, existing, sid, d, stock, source, t) ==
  IF existing = None /\ stock.volume > 0
    THEN InsertRow(table, DailyData(sid, d, stock, source), t)
  ELSE IF existing # None /\ ~IsWeekend(d) /\ stock.volume > 0 /\ existing.volume = 0
    THEN UpdateRow(table, sid, d, DailyData(sid, d, stock, source))
  ELSE table
SaveDailyMutNoFix(table, existing, sid, d, stock, source, t) ==
  IF existing = None /\ ~IsWeekend(d) /\ stock.volume > 0
    THEN InsertRow(table, DailyData(sid, d, stock, source), t)
  ELSE table
SaveDaily(table, existing, sid, d, stock, source, t) ==
  IF existing = None /\ ~IsWeekend(d) /\ stock.volume > 0
    THEN InsertRow(table, DailyData(sid, d, stock, source), t)
  ELSE IF existing # None /\ ~IsWeekend(d) /\ stock.volume > 0 /\ existing.volume = 0
    THEN UpdateRow(table, sid, d, DailyData(sid, d, stock, source))
  ELSE table

ScDailyMutAlwaysPoint(p) ==
  /\ pc[p] = "sc_daily"
  /\ daily_prices' = SaveDaily(daily_prices, loc[p].existing, loc[p].usid, etToday,
                               loc[p].stock, loc[p].src, now)
  /\ Goto(p, "sc_del")
  /\ UNCHANGED <<symtab, nextId, price_cache, env, req, loc, resp, calls, prev, opsLeft>>
ScDaily(p) ==
  /\ pc[p] = "sc_daily"
  /\ daily_prices' = SaveDaily(daily_prices, loc[p].existing, loc[p].usid, etToday,
                               loc[p].stock, loc[p].src, now)
  /\ Goto(p, IF ~req[p].refreshDailyOnly THEN "sc_del" ELSE loc[p].ret)
  /\ UNCHANGED <<symtab, nextId, price_cache, env, req, loc, resp, calls, prev, opsLeft>>

\* delete from price_cache where symbol_id = ...
ScDelMutKeep(p) ==
  /\ pc[p] = "sc_del"
  /\ Goto(p, "sc_ins")
  /\ UNCHANGED <<stores, env, req, loc, resp, calls, prev, opsLeft>>
ScDel(p) ==
  /\ pc[p] = "sc_del"
  /\ price_cache' = {r \in price_cache : r.symbol_id # loc[p].usid}
  /\ Goto(p, "sc_ins")
  /\ UNCHANGED <<symtab, nextId, daily_prices, env, req, loc, resp, calls, prev, opsLeft>>

\* insert into price_cache; the table is not created by the repository's SQL:
\* with a unique index on symbol_id the insert is refused when a row is there
\* (cacheError is logged), without one it always adds a row
ScIns(p) ==
  /\ pc[p] = "sc_ins"
  /\ price_cache' =
        IF uniquePoint /\ \E r \in price_cache : r.symbol_id = loc[p].usid
        THEN price_cache
        ELSE price_cache \cup
               {[symbol_id |-> loc[p].usid, as_of |-> now, price |-> loc[p].stock.currentPrice,
                 source |-> loc[p].src, by |-> p]}
  /\ Goto(p, loc[p].ret)
  /\ UNCHANGED <<symtab, nextId, daily_prices, env, req, loc, resp, calls, prev, opsLeft>>

\* ---- upsertChartDataForLastDays ------------------------------------------
UpSym(p) ==
  /\ pc[p] = "up_sym"
  /\ loc[p].chart.labels # <<>> \/ SelectId(req[p].symbol) = 0
  /\ SymSelect(p, "up_sym", "up_write", "up_symins")
\* len === 0: return before any write
UpSymEmpty(p) ==
  /\ pc[p] = "up_sym"
  /\ loc[p].chart.labels = <<>> /\ SelectId(req[p].symbol) # 0
  /\ SymSelect(p, "up_sym", "respond", "respond")
\* the insert into symbols of lines 161-171: reached only when the database is
\* unreachable (otherwise saveToCache has created the symbol before, and symbols
\* are never deleted); `if (!symbolData) return`
UpSymIns(p) == SymInsert(p, "up_symins", "up_write", "respond")

UpWrite(p) ==
  /\ pc[p] = "up_write"
  /\ daily_prices' = UpsertRows(daily_prices,
        ChartRows(loc[p].usid, loc[p].chart, loc[p].src, UpsertDays), now)
  /\ Goto(p, "respond")
  /\ UNCHANGED <<symtab, nextId, price_cache, env, req, loc, resp, calls, prev, opsLeft>>

\* ---- provider escalation -------------------------------------------------
\* Yahoo-first refresh: yResp.ok, a non-empty array, yData[0].chartData present
UsableFirst(r) == r.ok /\ Len(r.body) > 0
\* the later calls also require chartData.labels.length > 0
Usable(r) == r.ok /\ Len(r.body) > 0 /\ Len(r.body[1].chartData.labels) > 0

\* the fetch is recorded: the endpoint, whether the orchestrator used the answer,
\* whether the answer carried no history, and whether it was a single quote point
Logged(p, ep, usable, r) ==
  calls' = [calls EXCEPT ![p] = Append(@,
     [ep |-> ep, usable |-> usable, empty |-> ~Usable(r),
      point |-> r.ok /\ Len(r.body) > 0 /\ r.body[1].chartData.shape = "quote"])]

\* where the resolution goes after a provider call
AfterFirstYahooMutOn(usable) == "tiingo"
AfterFirstYahoo(usable) == IF usable THEN "sc_sym" ELSE "tiingo"
AfterTiingo(usable) == IF usable THEN "sc_sym" ELSE "y2"

\* the non-force refresh tries /api/stocks first and upserts the last 20 days
Y1(p, r) ==
  /\ pc[p] = "y1"
  /\ Logged(p, "yahoo", UsableFirst(r), r)
  /\ IF UsableFirst(r)
     THEN /\ loc' = [loc EXCEPT ![p].stock = StockFields(r.body[1]),
                               ![p].chart = Norm(r.body[1].chartData),
                               ![p].src = "yahoo", ![p].ret = "up_sym"]
          /\ Goto(p, AfterFirstYahoo(TRUE))
     ELSE /\ Goto(p, AfterFirstYahoo(FALSE))
          /\ UNCHANGED loc
  /\ UNCHANGED <<stores, env, req, resp, prev, opsLeft>>

\* after saveToCache: upsert the last 20 days only when forceRefresh
AfterSave(force) == IF force THEN "up_sym" ELSE "respond"

Tiingo(p, r) ==
  /\ pc[p] = "tiingo"
  /\ Logged(p, "tiingo", Usable(r), r)
  /\ IF Usable(r)
     THEN /\ loc' = [loc EXCEPT ![p].stock = StockFields(r.body[1]),
                               ![p].chart = AsIs(r.body[1].chartData),
                               ![p].src = "tiingo",
                               ![p].ret = AfterSave(req[p].forceRefresh)]
          /\ Goto(p, AfterTiingo(TRUE))
     ELSE /\ Goto(p, AfterTiingo(FALSE))
          /\ UNCHANGED loc
  /\ UNCHANGED <<stores, env, req, resp, prev, opsLeft>>

\* the fallback to /api/stocks after Tiingo
Y2(p, r) ==
  /\ pc[p] = "y2"
  /\ Logged(p, "yahoo", Usable(r), r)
  /\ IF Usable(r)
     THEN /\ loc' = [loc EXCEPT ![p].stock = StockFields(r.body[1]),
                               ![p].chart = AsIs(r.body[1].chartData),
                               ![p].src = "yahoo",
                               ![p].ret = AfterSave(req[p].forceRefresh)]
          /\ Goto(p, "sc_sym")
     ELSE /\ Goto(p, IF loc[p].sid # 0 THEN "fb_read" ELSE "fb_sym")
          /\ UNCHANGED loc
  /\ UNCHANGED <<stores, env, req, resp, prev, opsLeft>>

\* the record of a provider success
Respond(p) ==
  /\ pc[p] = "respond"
  /\ Complete(p, ProviderRecord(req[p].symbol, loc[p].stock, loc[p].src, loc[p].chart))
  /\ UNCHANGED <<stores, env, req, calls, opsLeft>>

\* ---- fallback to daily_prices when every provider call failed --------------
FbSym(p) ==
  /\ pc[p] = "fb_sym"
  /\ IF SelectId(req[p].symbol) # 0
     THEN /\ loc' = [loc EXCEPT ![p].sid = SelectId(req[p].symbol)]
          /\ Goto(p, "fb_read")
          /\ UNCHANGED <<resp, prev>>
     ELSE Complete(p, ErrorRecord(req[p].symbol))
  /\ UNCHANGED <<stores, env, req, calls, opsLeft>>

FbRead(p) ==
  /\ pc[p] = "fb_read"
  /\ LET rows == SortByDate(RowsInRange(daily_prices, loc[p].sid,
                               today - RequiredDays(req[p].timeRange), today))
     IN Complete(p, IF Len(rows) > 0 THEN HistRecord(req[p].symbol, rows, "daily_prices")
                    ELSE ErrorRecord(req[p].symbol))
  /\ UNCHANGED <<stores, env, req, calls, opsLeft>>

\* the steps of a request after its start
OrchestratorSteps(p) ==
  \/ Lookup(p) \/ ReadDaily(p) \/ ReadCache(p) \/ HistReturn(p)
  \/ ScSym(p) \/ ScSymIns(p) \/ ScExisting(p) \/ ScDaily(p) \/ ScDel(p) \/ ScIns(p)
  \/ UpSym(p) \/ UpSymEmpty(p) \/ UpWrite(p)
  \/ /\ pc[p] = "y1" /\ \E r \in YahooResponses(today, feed) : Y1(p, r)
  \/ /\ pc[p] = "tiingo" /\ \E r \in TiingoResponses(today, feed) : Tiingo(p, r)
  \/ /\ pc[p] = "y2" /\ \E r \in YahooResponses(today, feed) : Y2(p, r)
  \/ Respond(p) \/ FbSym(p) \/ FbRead(p)

Orchestrator(p) ==
  \/ /\ Idle(p) /\ opsLeft > 0
     /\ \E sym \in ReqTickers, tr \in TimeRanges, force \in BOOLEAN, rdo \in BOOLEAN :
           StartRequest(p, sym, tr, force, rdo)
  \/ OrchestratorSteps(p)

\* ------------------------------------------------------------------------
\* Maintenance Sweeper (data-maintenance route); the server clock is UTC
\* ------------------------------------------------------------------------
SweepActions == {"maintain", "force_refresh"}

\* the days of [lo, hi] the upstream has a bar for, ascending
RECURSIVE RangeDates(_, _, _)
RangeDates(lo, hi, fd) ==
  IF hi < lo THEN <<>>
  ELSE IF lo = hi THEN (IF ~fd.wk /\ IsWeekend(hi) THEN <<>> ELSE <<hi>>)
  ELSE LET mid == (lo + hi) \div 2
       IN RangeDates(lo, mid, fd) \o RangeDates(mid + 1, hi, fd)

\* yahooFinance.historical(symbol, { period1, period2, interval: '1d' })
Historical(lo, hi, td, fd) ==
  LET ds == RangeDates(lo, Min(hi, td), fd)
  IN [i \in 1..Len(ds) |->
        LET b == FeedBar(ds[i], td, fd) IN
        [date |-> b.date, open |-> b.open, high |-> b.high, low |-> b.low,
         close |-> b.close, adjClose |-> b.close, volume |-> b.volume]]

\* checkDataGaps: the weekdays of [today - lookbackDays, today] without a row.
\* endDate is taken before startDate, so the loop `d <= endDate` reaches today
\* only when both `new Date()` fall in the same millisecond (sameMs).
RECURSIVE GapDates(_, _, _)
GapDates(lo, hi, have) ==
  IF hi < lo THEN <<>>
  ELSE IF lo = hi THEN (IF IsWeekend(hi) \/ hi \in have THEN <<>> ELSE <<hi>>)
  ELSE LET mid == (lo + hi) \div 2
       IN GapDates(lo, mid, have) \o GapDates(mid + 1, hi, have)

checkDataGaps(table, sid, lookbackDays, td, sameMs) ==
  LET have == {r.as_of_date : r \in RowsInRange(table, sid, td - lookbackDays, td)}
  IN GapDates(td - lookbackDays, IF sameMs THEN td ELSE td - 1, have)

StartSweep(p, action, sym) ==
  /\ Idle(p)
  /\ opsLeft > 0
  /\ ~repeatOnly
  /\ Begin(p, [kind |-> action, symbol |-> sym], "sw_init")
  /\ batch' = batch

\* initDatabase: upsert of (1, TQQQ), (2, SQQQ) into symbols, on conflict (id);
\* refused as a whole when a ticker is registered under another id
SwInit(p) ==
  /\ pc[p] = "sw_init"
  /\ symtab' = IF ~storeDown /\ \A t \in DOMAIN SYMBOL_ID_MAP : symtab[t] \in {0, SYMBOL_ID_MAP[t]}
               THEN [t \in Tickers |-> IF t \in DOMAIN SYMBOL_ID_MAP
                                         THEN SYMBOL_ID_MAP[t] ELSE symtab[t]]
               ELSE symtab
  /\ Goto(p, "sw_verify")
  /\ UNCHANGED <<nextId, daily_prices, price_cache, env, req, loc, resp, calls, prev, opsLeft>>

SweepError(sym) == [symbol |-> sym, status |-> "error", count |-> 0]

\* getSymbolId: the fixed id of the ticker, verified against the symbols table
SwVerify(p) ==
  /\ pc[p] = "sw_verify"
  /\ LET sym == req[p].symbol IN
     IF sym \in DOMAIN SYMBOL_ID_MAP /\ SelectId(sym) = SYMBOL_ID_MAP[sym]
     THEN /\ loc' = [loc EXCEPT ![p].sid = SYMBOL_ID_MAP[sym]]
          /\ Goto(p, IF req[p].kind = "maintain" THEN "sw_gaps" ELSE "sw_fetch")
          /\ UNCHANGED <<resp, prev>>
     ELSE Complete(p, SweepError(sym))
  /\ UNCHANGED <<stores, env, req, calls, opsLeft>>

\* maintainSymbolData, step 2
SwGaps(p, sameMs) ==
  /\ pc[p] = "sw_gaps"
  /\ LET missing == checkDataGaps(daily_prices, loc[p].sid, SweepLookback, today, sameMs) IN
     IF Len(missing) = 0
     THEN Complete(p, [symbol |-> req[p].symbol, status |-> "up_to_date", count |-> 0])
     ELSE /\ loc' = [loc EXCEPT ![p].missing = Range(missing)]
          /\ Goto(p, "sw_fetch")
          /\ UNCHANGED <<resp, prev>>
  /\ UNCHANGED <<stores, env, req, calls, opsLeft>>

\* how the upstream service answers an adapter: no answer at all, a non-2xx
\* status, a payload that is not the expected one, or the bars
UpstreamAnswers == {"network_error", "non_2xx", "malformed", "rows"}

\* getTiingoData: [] on a non-2xx answer, on a payload that is not a non-empty
\* array and on anything thrown; otherwise the bars
getTiingoData(answer, bars) ==
  [threw |-> FALSE, data |-> IF answer = "rows" THEN bars ELSE <<>>]
\* getTiingoQuote: the zeroed record on a non-2xx answer and on anything thrown
getTiingoQuote(answer) ==
  [threw |-> FALSE,
   data |-> IF answer = "rows"
              THEN [currentPrice |-> Quote.price, open |-> Quote.open, high |-> Quote.high,
                    low |-> Quote.low, volume |-> 0]
            ELSE NoStock]
\* fetchYahooData of the sweeper: what yahooFinance.historical throws is logged
\* and thrown again
fetchYahooData(answer, bars) ==
  IF answer = "rows" THEN [threw |-> FALSE, data |-> bars]
  ELSE [threw |-> TRUE, data |-> <<>>]

\* the bars a maintain run keeps: those of the missing dates
Relevant(historical, missing) == SelectSeq(historical, LAMBDA b : b.date \in missing)

\* fetchYahooData: the range of the missing dates with 2 days before and 1 after,
\* or the last `days` days; it rethrows what yahooFinance throws
SwFetch(p, up) ==
  /\ pc[p] = "sw_fetch"
  /\ calls' = [calls EXCEPT ![p] = Append(@, [ep |-> "yahoo_finance", usable |-> up, empty |-> ~up,
                                             point |-> FALSE])]
  /\ IF ~up THEN Complete(p, SweepError(req[p].symbol))
     ELSE IF req[p].kind = "maintain"
     THEN LET lo == (CHOOSE d \in loc[p].missing : \A e \in loc[p].missing : d <= e) - 2
              rel == Relevant(Historical(lo, today + 1, today, feed), loc[p].missing)
          IN IF Len(rel) > 0
             THEN /\ loc' = [loc EXCEPT ![p].hist = rel]
                  /\ Goto(p, "sw_upsert")
                  /\ UNCHANGED <<resp, prev>>
             ELSE Complete(p, [symbol |-> req[p].symbol, status |-> "updated", count |-> 0])
     ELSE LET h == Historical(today - SweepRefreshDays, today, today, feed)
          IN IF Len(h) > 0
             THEN /\ loc' = [loc EXCEPT ![p].hist = h]
                  /\ Goto(p, "sw_upsert")
                  /\ UNCHANGED <<resp, prev>>
             ELSE Complete(p, [symbol |-> req[p].symbol, status |-> "force_refreshed",
                               count |-> 0])
  /\ UNCHANGED <<stores, env, req, opsLeft>>

\* upsertDailyPrices
SwUpsert(p) ==
  /\ pc[p] = "sw_upsert"
  /\ daily_prices' = UpsertRows(daily_prices, SweepRows(loc[p].sid, loc[p].hist), now)
  /\ Complete(p, [symbol |-> req[p].symbol,
                  status |-> IF req[p].kind = "maintain" THEN "updated" ELSE "force_refreshed",
                  count |-> Len(loc[p].hist)])
  /\ UNCHANGED <<symtab, nextId, price_cache, env, req, calls, opsLeft>>

\* the steps of a sweeper run after its start
SweeperSteps(p) ==
  \/ SwInit(p) \/ SwVerify(p)
  \/ \E sameMs \in BOOLEAN : SwGaps(p, sameMs)
  \/ \E answer \in UpstreamAnswers : SwFetch(p, ~fetchYahooData(answer, <<>>).threw)
  \/ SwUpsert(p)

Sweeper(p) ==
  \/ /\ Idle(p) /\ opsLeft > 0
     /\ \E action \in SweepActions, sym \in Tickers : StartSweep(p, action, sym)
  \/ SweeperSteps(p)

\* ---- the route handlers of the sweeper ---------------------------------------
\* symbols || ['TQQQ', 'SQQQ']
DefaultTargets == <<"TQQQ", "SQQQ">>
Targets(symbols) == IF symbols.given THEN symbols.items ELSE DefaultTargets

\* a handler that was entered and has not returned
Running(handler, kind, symbols) ==
  [state |-> "running", handler |-> handler, kind |-> kind, symbols |-> symbols,
   status |-> 0, body |-> <<>>]
\* NextResponse.json(body, { status })
Returned(b, status, body) == [b EXCEPT !.state = "returned", !.status = status, !.body = body]

\* POST /api/data-maintenance { action, symbols }: any other action is a 400
PostSweep(action, symbols) ==
  /\ batch.state = "none"
  /\ batch' = IF action \in SweepActions
                THEN Running("sweeper", action, Targets(symbols))
              ELSE Returned(Running("sweeper", action, Targets(symbols)), 400, <<>>)
  /\ UNCHANGED <<stores, clock, snap, pc, req, loc, resp, calls, prev, opsLeft>>

\* GET /api/data-maintenance, the scheduled run: maintain for TQQQ and SQQQ
GetSweep ==
  /\ batch.state = "none"
  /\ batch' = Running("sweeper", "maintain", DefaultTargets)
  /\ UNCHANGED <<stores, clock, snap, pc, req, loc, resp, calls, prev, opsLeft>>

\* the loop `for (const symbol of targetSymbols)` has run through
SweepFinishedMutAbort(results, targets) ==
  \/ Len(results) = Len(targets)
  \/ Len(results) > 0 /\ results[Len(results)].status = "error"
SweepFinished(results, targets) == Len(results) = Len(targets)

\* one turn of the loop: results.push(result) of the run that has returned, then
\* the run for the next symbol, or the response { success: true, results }
SweepLoop(p) ==
  /\ batch.state = "running" /\ batch.handler = "sweeper"
  /\ Idle(p)
  /\ LET results == IF pc[p] = "done" THEN Append(batch.body, resp[p]) ELSE batch.body
     IN IF SweepFinished(results, batch.symbols)
        THEN /\ batch' = Returned(batch, 200, results)
             /\ pc' = [pc EXCEPT ![p] = "idle"]
             /\ UNCHANGED <<stores, clock, snap, req, loc, resp, calls, prev, opsLeft>>
        ELSE /\ batch' = [batch EXCEPT !.body = results]
             /\ Begin(p, [kind |-> batch.kind, symbol |-> batch.symbols[Len(results) + 1]],
                      "sw_init")

\* ------------------------------------------------------------------------
\* Auto-update (auto-update route): daily and weekly runs over UPDATE_CONFIG.symbols
\* ------------------------------------------------------------------------
UpdateSymbols == <<"TQQQ", "SQQQ">>
UpdateTypes == {"daily", "weekly"}
LookbackOf(kind) == IF kind = "weekly" THEN WeeklyLookback ELSE DailyLookback

AutoEntry(sym, status, n) == [symbol |-> sym, status |-> status, count |-> n]

\* getSymbolId of the auto-update route: the fixed id, verified against the
\* symbols table; the table is not initialised here
AuVerify(p) ==
  /\ pc[p] = "au_verify"
  /\ LET sym == req[p].symbol IN
     IF sym \in DOMAIN SYMBOL_ID_MAP /\ SelectId(sym) = SYMBOL_ID_MAP[sym]
     THEN /\ loc' = [loc EXCEPT ![p].sid = SYMBOL_ID_MAP[sym]]
          /\ Goto(p, "au_gaps")
          /\ UNCHANGED <<resp, prev>>
     ELSE Complete(p, AutoEntry(sym, "error", 0))
  /\ UNCHANGED <<stores, env, req, calls, opsLeft>>

\* checkDataGaps of the auto-update route: a failed query yields no gaps
checkDataGapsAuto(table, sid, lookbackDays, td, sameMs, queryError) ==
  IF queryError THEN <<>> ELSE checkDataGaps(table, sid, lookbackDays, td, sameMs)

\* performDailyUpdate / performWeeklyUpdate: the gaps of one symbol; a query of
\* daily_prices that failed is recorded among the calls of the turn
AuGaps(p, sameMs, queryError) ==
  /\ pc[p] = "au_gaps"
  /\ LET missing == checkDataGapsAuto(daily_prices, loc[p].sid, LookbackOf(req[p].kind), today,
                                      sameMs, queryError) IN
     IF Len(missing) = 0
     THEN Complete(p, AutoEntry(req[p].symbol, "up_to_date", 0))
     ELSE /\ loc' = [loc EXCEPT ![p].missing = Range(missing)]
          /\ Goto(p, "au_fetch")
          /\ UNCHANGED <<resp, prev>>
  /\ calls' = IF queryError
              THEN [calls EXCEPT ![p] = Append(@, [ep |-> "daily_prices", usable |-> FALSE,
                                                  empty |-> TRUE, point |-> FALSE])]
              ELSE calls
  /\ UNCHANGED <<stores, env, req, opsLeft>>

\* 2^n
RECURSIVE Pow2(_)
Pow2(n) == IF n = 0 THEN 1 ELSE 2 * Pow2(n - 1)

\* the pause after the failed attempt number `attempt`
BackoffDelayMutFlat(attempt) == retryDelay
BackoffDelay(attempt) == retryDelay * Pow2(attempt - 1)

\* one attempt of fetchDataWithRetry over [min missing, max missing] (one day
\* more when both are the same day), then the filter on the missing dates
AuFetch(p, answer) ==
  /\ pc[p] = "au_fetch"
  /\ LET lo == CHOOSE d \in loc[p].missing : \A e \in loc[p].missing : d <= e
         mx == CHOOSE d \in loc[p].missing : \A e \in loc[p].missing : e <= d
         hi == IF lo = mx THEN mx + 1 ELSE mx
         r == fetchYahooData(answer, Historical(lo, hi, today, feed))
         attempt == Len(calls[p]) + 1
         filteredData == Relevant(r.data, loc[p].missing)
     IN /\ calls' = [calls EXCEPT ![p] = Append(@, [ep |-> "yahoo_finance", usable |-> ~r.threw,
                                                    empty |-> r.threw, point |-> FALSE])]
        /\ IF ~r.threw
           THEN IF Len(filteredData) > 0
                THEN /\ loc' = [loc EXCEPT ![p].hist = filteredData]
                     /\ Goto(p, "au_upsert")
                     /\ UNCHANGED <<resp, prev>>
                ELSE Complete(p, AutoEntry(req[p].symbol, "no_data", 0))
           ELSE IF attempt < maxRetries
                THEN /\ loc' = [loc EXCEPT ![p].delay = BackoffDelay(attempt)]
                     /\ Goto(p, "au_wait")
                     /\ UNCHANGED <<resp, prev>>
                ELSE Complete(p, AutoEntry(req[p].symbol, "error", 0))
  /\ UNCHANGED <<stores, env, req, opsLeft>>

\* await new Promise(resolve => setTimeout(resolve, delay))
AuWait(p) ==
  /\ pc[p] = "au_wait"
  /\ Goto(p, "au_fetch")
  /\ UNCHANGED <<stores, env, req, loc, resp, calls, prev, opsLeft>>

\* upsertDailyPrices of the filtered bars
AuUpsert(p) ==
  /\ pc[p] = "au_upsert"
  /\ daily_prices' = UpsertRows(daily_prices, SweepRows(loc[p].sid, loc[p].hist), now)
  /\ Complete(p, AutoEntry(req[p].symbol, "updated", Len(loc[p].hist)))
  /\ UNCHANGED <<symtab, nextId, price_cache, env, req, calls, opsLeft>>

AutoSteps(p) ==
  \/ AuVerify(p)
  \/ \E sameMs, queryError \in BOOLEAN : AuGaps(p, sameMs, queryError)
  \/ \E answer \in UpstreamAnswers : AuFetch(p, answer)
  \/ AuWait(p)
  \/ AuUpsert(p)

\* POST /api/auto-update { updateType = 'daily' }: weekly when asked, else daily
PostAuto(updateType) ==
  /\ batch.state = "none"
  /\ batch' = Running("auto", IF updateType = "weekly" THEN "weekly" ELSE "daily", UpdateSymbols)
  /\ UNCHANGED <<stores, clock, snap, pc, req, loc, resp, calls, prev, opsLeft>>

\* one turn of `for (const symbol of UPDATE_CONFIG.symbols)`: results.push of the
\* turn that has ended, then the next symbol, or the response with the results
AutoLoop(p) ==
  /\ batch.state = "running" /\ batch.handler = "auto"
  /\ Idle(p)
  /\ LET results == IF pc[p] = "done" THEN Append(batch.body, resp[p]) ELSE batch.body
     IN IF SweepFinished(results, batch.symbols)
        THEN /\ batch' = Returned(batch, 200, results)
             /\ pc' = [pc EXCEPT ![p] = "idle"]
             /\ UNCHANGED <<stores, clock, snap, req, loc, resp, calls, prev, opsLeft>>
        ELSE /\ batch' = [batch EXCEPT !.body = results]
             /\ Begin(p, [kind |-> batch.kind, symbol |-> batch.symbols[Len(results) + 1]],
                      "au_verify")

\* ------------------------------------------------------------------------
\* The cache route as a whole: POST /api/stocks/cache { symbols, timeRange,
\* forceRefresh, refreshDailyOnly }
\* ------------------------------------------------------------------------
\* `symbols` of a body: absent, something that is not an array, or an array
SymbolsKinds == {"missing", "scalar", "list"}

\* !symbols || !Array.isArray(symbols) || symbols.length === 0
SymbolsRejected(symbols) == symbols.kind # "list" \/ Len(symbols.items) = 0
\* !timeRange
TimeRangeRejectedMutNever(timeRange) == FALSE
TimeRangeRejected(timeRange) == timeRange = "missing"

\* the handler was entered with `body`; `before` is the database at that moment
RunningCache(body) ==
  [state |-> "running", handler |-> "cache", kind |-> body.timeRange,
   symbols |-> IF body.symbols.kind = "list" THEN body.symbols.items ELSE <<>>,
   status |-> 0, body |-> <<>>, request |-> body]

\* symbols.map(async (symbol) => ...): every promise runs up to its first await,
\* the select of the symbol id
StartAll(items, body) ==
  LET n == Len(items) IN
  /\ req' = [p \in Procs |->
               IF p <= n THEN [kind |-> "cache", symbol |-> items[p], timeRange |-> body.timeRange,
                               forceRefresh |-> body.forceRefresh,
                               refreshDailyOnly |-> body.refreshDailyOnly]
               ELSE req[p]]
  /\ pc' = [p \in Procs |-> IF p <= n THEN "lookup" ELSE pc[p]]
  /\ loc' = [p \in Procs |-> IF p <= n THEN InitLoc ELSE loc[p]]
  /\ resp' = [p \in Procs |-> IF p <= n THEN None ELSE resp[p]]
  /\ calls' = [p \in Procs |-> IF p <= n THEN <<>> ELSE calls[p]]
  /\ snap' = [p \in Procs |->
                IF p <= n THEN [symtab |-> symtab, daily |-> daily_prices, cache |-> price_cache]
                ELSE snap[p]]
  /\ opsLeft' = opsLeft - n
  /\ prev' = prev

\* POST, lines 218-232: a body that does not parse ends in the outer catch (500),
\* a rejected one in a 400; otherwise one promise per symbol is started
PostCache(body) ==
  /\ batch.state = "none"
  /\ \A p \in Procs : pc[p] = "idle"
  /\ IF ~body.json
     THEN /\ batch' = Returned(RunningCache(body), 500, <<>>)
          /\ UNCHANGED <<pc, req, loc, resp, calls, prev, opsLeft, snap>>
     ELSE IF SymbolsRejected(body.symbols) \/ TimeRangeRejected(body.timeRange)
     THEN /\ batch' = Returned(RunningCache(body), 400, <<>>)
          /\ UNCHANGED <<pc, req, loc, resp, calls, prev, opsLeft, snap>>
     ELSE /\ Len(body.symbols.items) <= opsLeft
          /\ batch' = RunningCache(body)
          /\ StartAll(body.symbols.items, body)
  /\ UNCHANGED <<stores, clock>>

\* return NextResponse.json(results)
BatchResponseMutFailFast(b, results) ==
  IF \E i \in 1..Len(results) : results[i].dataSource = "error"
  THEN Returned(b, 500, <<>>)
  ELSE Returned(b, 200, results)
BatchResponse(b, results) == Returned(b, 200, results)

\* await Promise.all(stockDataPromises): every promise has resolved to its record
BatchReturn ==
  /\ batch.state = "running" /\ batch.handler = "cache"
  /\ \A i \in 1..Len(batch.symbols) : pc[i] = "done"
  /\ batch' = BatchResponse(batch, [i \in 1..Len(batch.symbols) |-> resp[i]])
  /\ UNCHANGED <<stores, clock, snap, pc, req, loc, resp, calls, prev, opsLeft>>

\* a fetch of a provider endpoint that never settles: the route sets no timeout
\* and passes no abort signal, so the promise stays pending
Hang(p) ==
  /\ pc[p] \in {"y1", "tiingo", "y2"}
  /\ Goto(p, "pending")
  /\ UNCHANGED <<stores, env, req, loc, resp, calls, prev, opsLeft>>

\* ------------------------------------------------------------------------
\* Initial states: the database after database-setup.sql (TQQQ = 1, SQQQ = 2),
\* with some history already collected
\* ------------------------------------------------------------------------
\* (UTC date, US Eastern date): Tuesday/Tuesday, Saturday/Friday, Sunday/Saturday
ClockChoices == {[today |-> 205, et |-> 205], [today |-> 202, et |-> 201],
                 [today |-> 203, et |-> 202]}
\* bars of TQQQ on its n latest weekdays; old: one more bar 60 days back;
\* zv: the latest bar was stored with volume 0
HistChoices == {[n |-> 0, old |-> FALSE, zv |-> FALSE], [n |-> 3, old |-> FALSE, zv |-> TRUE],
                [n |-> 9, old |-> TRUE, zv |-> FALSE], [n |-> 10, old |-> FALSE, zv |-> FALSE]}
\* age in minutes of the PointQuote of TQQQ (-1: no row)
PointChoices == {-1, 19, 21}
\* the ways a fetch of a provider endpoint comes back without history
Faults == {"fail", "empty", "nohist"}
FeedChoices == {[wk |-> FALSE, qvol |-> 1500, lens |-> SeriesLens, faults |-> Faults],
                [wk |-> TRUE, qvol |-> 1500, lens |-> SeriesLens, faults |-> Faults],
                [wk |-> FALSE, qvol |-> 0, lens |-> SeriesLens, faults |-> Faults]}
\* Date.now() of the model, late enough for a PointQuote to be older than 20 minutes
StartMinute == 5 * TwentyMinutes

StoredBar(sid, d, vol) ==
  [symbol_id |-> sid, as_of_date |-> d, open |-> 10 + (d % 3), high |-> 13 + (d % 3),
   low |-> 9, close |-> 11 + (d % 3), adj_close |-> 11 + (d % 3), volume |-> vol,
   source |-> "yahoo_finance", created_at |-> 0]

\* lag: the days since the latest bar of TQQQ was collected
Lag(h) == IF "lag" \in DOMAIN h THEN h.lag ELSE 0
InitRows(c, h) ==
  LET ds == FeedDates(c.et - Lag(h), h.n, [wk |-> FALSE, qvol |-> 0])
  IN {StoredBar(1, ds[i], IF h.zv /\ i = Len(ds) THEN 0 ELSE 900) : i \in 1..Len(ds)}
     \cup (IF h.old THEN {StoredBar(1, c.today - 60, 900)} ELSE {})
     \cup {StoredBar(2, FeedDates(c.et, 1, [wk |-> FALSE, qvol |-> 0])[1], 900)}

InitWith(clocks, hists, points, feeds, ops, rep) ==
  /\ symtab = [t \in Tickers |-> IF t = "TQQQ" THEN 1 ELSE IF t = "SQQQ" THEN 2 ELSE 0]
  /\ nextId = 3
  /\ \E c \in clocks, h \in hists :
        /\ today = c.today
        /\ etToday = c.et
        /\ daily_prices = InitRows(c, h)
  /\ now = StartMinute
  /\ \E a \in points :
        price_cache = IF a < 0 THEN {}
                      ELSE {[symbol_id |-> 1, as_of |-> StartMinute - a, price |-> 11,
                             source |-> "yahoo_finance", by |-> 0]}
  /\ feed \in feeds
  /\ pc = [p \in Procs |-> "idle"]
  /\ req = [p \in Procs |-> NoReq]
  /\ loc = [p \in Procs |-> InitLoc]
  /\ resp = [p \in Procs |-> None]
  /\ calls = [p \in Procs |-> <<>>]
  /\ prev = None
  /\ snap = [p \in Procs |-> None]
  /\ opsLeft = ops
  /\ repeatOnly = rep
  /\ batch = NoBatch

Init ==
  /\ InitWith(ClockChoices, HistChoices, PointChoices, FeedChoices, MaxOps, FALSE)
  /\ uniquePoint = FALSE
  /\ storeDown = FALSE

Next == \E p \in SeqProcs : Orchestrator(p) \/ Sweeper(p)

Spec == Init /\ [][Next]_vars

\* a cold cache, then the same request again
InitWarm ==
  /\ InitWith(ClockChoices, {[n |-> 0, old |-> FALSE, zv |-> FALSE]}, {-1},
              FeedChoices, 1 + MaxRepeats, TRUE)
  /\ uniquePoint = FALSE
  /\ storeDown = FALSE
NextWarm == \E p \in SeqProcs : Orchestrator(p)
SpecWarm == InitWarm /\ [][NextWarm]_vars

\* two invocations at a time, each one operation: requests for a registered and
\* for an unregistered ticker, sweeper runs for the registered one; the upstream
\* answers with a 10-bar series, without history, or not at all
ConcTickers == {"TQQQ", "IXIC"}
ConcFeeds == {[wk |-> FALSE, qvol |-> 1500, lens |-> {10}, faults |-> {"fail", "nohist"}]}
InitConc ==
  /\ InitWith({[today |-> 205, et |-> 205]},
              {[n |-> 3, old |-> FALSE, zv |-> TRUE], [n |-> 10, old |-> FALSE, zv |-> FALSE]},
              {21}, ConcFeeds, Cardinality(Procs), FALSE)
  /\ uniquePoint \in BOOLEAN
  /\ storeDown = FALSE
NextConc ==
  \E p \in Procs :
    \/ /\ pc[p] = "idle" /\ opsLeft > 0
       /\ \E sym \in ConcTickers, force \in BOOLEAN : StartRequest(p, sym, "1m", force, FALSE)
    \/ OrchestratorSteps(p)
    \/ /\ pc[p] = "idle" /\ opsLeft > 0
       /\ \E action \in SweepActions : StartSweep(p, action, "TQQQ")
    \/ SweeperSteps(p)
SpecConc == InitConc /\ [][NextConc]_vars

\* one operation on a Tuesday, TQQQ holding 3 or 10 bars and a PointQuote that
\* is absent or 19, 20 or 21 minutes old
PointAges == {-1, TwentyMinutes - 1, TwentyMinutes, TwentyMinutes + 1}
PointFeeds == {[wk |-> FALSE, qvol |-> 1500, lens |-> SeriesLens, faults |-> Faults]}
InitPoint ==
  /\ InitWith({[today |-> 205, et |-> 205]},
              {[n |-> 3, old |-> FALSE, zv |-> TRUE], [n |-> 10, old |-> FALSE, zv |-> FALSE]},
              PointAges, PointFeeds, MaxOps, FALSE)
  /\ uniquePoint \in BOOLEAN
  /\ storeDown = FALSE
SpecPoint == InitPoint /\ [][Next]_vars

\* one operation on a cache holding 10 bars of TQQQ, the latest one stored with
\* or without its volume, and a PointQuote that is absent, fresh or stale
HistFull == {[n |-> 10, old |-> FALSE, zv |-> TRUE], [n |-> 10, old |-> FALSE, zv |-> FALSE]}
InitHist ==
  /\ InitWith(ClockChoices, HistFull, PointChoices, FeedChoices, MaxOps, FALSE)
  /\ uniquePoint = FALSE
  /\ storeDown = FALSE
SpecHist == InitHist /\ [][Next]_vars

\* one operation on a Tuesday, TQQQ holding 9 or 10 bars whose latest is of
\* today or two weeks old
StaleHists == {[n |-> n, old |-> FALSE, zv |-> FALSE, lag |-> l] : n \in {9, 10}, l \in {0, 14}}
InitStale ==
  /\ InitWith({[today |-> 205, et |-> 205]}, StaleHists, PointChoices, FeedChoices, MaxOps, FALSE)
  /\ uniquePoint = FALSE
  /\ storeDown = FALSE
SpecStale == InitStale /\ [][Next]_vars

\* the sweeper's handlers as a whole: a POST with up to MaxTargets symbols or the
\* scheduled GET; Tuesday in UTC while US Eastern is at Tuesday or still at
\* Monday, TQQQ with one weekday of the look-back window missing; the database
\* reachable or not
TargetLists ==
  {[given |-> FALSE, items |-> <<>>]}
    \cup {[given |-> TRUE, items |-> t] :
             t \in UNION {[1..n -> Tickers] : n \in 0..MaxTargets}}
SweepClocks == {[today |-> 205, et |-> 205], [today |-> 205, et |-> 204]}
SweepHists == {[n |-> 3, old |-> FALSE, zv |-> FALSE], [n |-> 4, old |-> FALSE, zv |-> FALSE]}
InitSweep ==
  /\ InitWith(SweepClocks, SweepHists, {-1}, FeedChoices, MaxTargets, FALSE)
  /\ uniquePoint = FALSE
  /\ storeDown \in BOOLEAN
NextSweep ==
  \/ \E action \in SweepActions \cup {"other"}, symbols \in TargetLists :
        PostSweep(action, symbols)
  \/ GetSweep
  \/ \E updateType \in UpdateTypes \cup {"other"} : PostAuto(updateType)
  \/ \E p \in SeqProcs : SweepLoop(p) \/ SweeperSteps(p) \/ AutoLoop(p) \/ AutoSteps(p)
SpecSweep == InitSweep /\ [][NextSweep]_vars

\* one POST to the cache route with up to two symbols, their resolutions running
\* concurrently; a Tuesday, TQQQ holding 3 or 10 bars; the database reachable or
\* not; the upstream answers with a 10-bar series, without history, or not at
\* all, and a provider call may never settle
SymbolLists == UNION {[1..n -> ConcTickers] : n \in 0..Cardinality(Procs)}
Bodies ==
  {[json |-> FALSE, symbols |-> [kind |-> "missing", items |-> <<>>], timeRange |-> "missing",
    forceRefresh |-> FALSE, refreshDailyOnly |-> FALSE]}
  \cup {[json |-> TRUE, symbols |-> [kind |-> k, items |-> <<>>], timeRange |-> tr,
         forceRefresh |-> FALSE, refreshDailyOnly |-> FALSE] :
           k \in {"missing", "scalar"}, tr \in {"1m", "missing"}}
  \cup {[json |-> TRUE, symbols |-> [kind |-> "list", items |-> l], timeRange |-> tr,
         forceRefresh |-> f, refreshDailyOnly |-> FALSE] :
           l \in SymbolLists, tr \in {"1m", "missing"}, f \in BOOLEAN}
InitBatch ==
  /\ InitWith({[today |-> 205, et |-> 205]},
              {[n |-> 3, old |-> FALSE, zv |-> TRUE], [n |-> 10, old |-> FALSE, zv |-> FALSE]},
              {-1}, ConcFeeds, Cardinality(Procs), FALSE)
  /\ uniquePoint = FALSE
  /\ storeDown \in BOOLEAN
NextBatch ==
  \/ \E body \in Bodies : PostCache(body)
  \/ \E p \in Procs : OrchestratorSteps(p) \/ UpSymIns(p) \/ Hang(p)
  \/ BatchReturn
SpecBatch == InitBatch /\ [][NextBatch]_vars
\* the event loop runs every continuation that is ready: a resolution that can
\* take a step takes one, and the handler answers once every promise is resolved
SpecBatchFair ==
  /\ SpecBatch
  /\ \A p \in Procs : WF_vars(OrchestratorSteps(p) \/ UpSymIns(p))
  /\ WF_vars(BatchReturn)

\* ------------------------------------------------------------------------
\* Properties
\* ------------------------------------------------------------------------
\* a request to the orchestrator has returned
CacheDone(p) == pc[p] = "done" /\ req[p].kind = "cache"
\* the id the symbol had, and the bars of the requested window, when it started
SidAtStart(p) == snap[p].symtab[req[p].symbol]
WindowAtStart(p) ==
  RowsInRange(snap[p].daily, SidAtStart(p), today - RequiredDays(req[p].timeRange), today)
\* neither store held anything for the symbol when the request started
ColdAtStart(p) ==
  \/ SidAtStart(p) = 0
  \/ /\ ~\E r \in snap[p].daily : r.symbol_id = SidAtStart(p)
     /\ ~\E r \in snap[p].cache : r.symbol_id = SidAtStart(p)
\* the endpoints fetched, in order
Endpoints(p) == [i \in 1..Len(calls[p]) |-> calls[p][i].ep]
IsPrefix(s, t) == Len(s) <= Len(t) /\ \A i \in 1..Len(s) : s[i] = t[i]
\* the bars the Historical Cache holds now for the symbol of the request
StoredBars(p) == {r \in daily_prices : r.symbol_id = symtab[req[p].symbol]}
\* entry i of a returned chartData is stored as a bar written by `source`
StoredAs(p, cd, i, source) ==
  \E r \in StoredBars(p) :
     /\ r.as_of_date = cd.labels[i] /\ r.open = cd.open[i] /\ r.high = cd.high[i]
     /\ r.low = cd.low[i] /\ r.close = cd.close[i] /\ r.volume = cd.volume[i]
     /\ r.source = source

\* C1: a non-force request for a registered symbol whose window held at least
\* 10 bars is answered from daily_prices without any provider call; with
\* exactly 9 bars in the window it goes on to the provider adapters.
C1_SufficiencyThreshold ==
  \A p \in Procs :
    (CacheDone(p) /\ ~req[p].forceRefresh /\ SidAtStart(p) # 0) =>
      LET rows == SortByDate(WindowAtStart(p)) IN
        /\ Len(rows) >= MinBars =>
              /\ calls[p] = <<>>
              /\ resp[p] = HistRecord(req[p].symbol, rows, rows[Len(rows)].source)
        /\ Len(rows) = MinBars - 1 => calls[p] # <<>>
C1_Witness ==
  \E p \in Procs :
    /\ CacheDone(p) /\ ~req[p].forceRefresh /\ SidAtStart(p) # 0
    /\ Cardinality(WindowAtStart(p)) = MinBars
    /\ calls[p] = <<>>
    /\ Len(resp[p].chartData.labels) = MinBars

\* C2: no bar of daily_prices carries a Saturday or a Sunday as its date, also
\* when a provider labels bars with weekend dates.
C2_NoWeekendBars == \A r \in daily_prices : ~IsWeekend(r.as_of_date)

\* C3: a non-force request whose first provider call gave nothing and whose
\* second call gave a 10-row series answers with the second adapter as
\* dataSource and has all 10 rows in daily_prices.
C3_FallbackStoresSeries ==
  \A p \in Procs :
    (/\ CacheDone(p) /\ ~req[p].forceRefresh
     /\ Len(calls[p]) = 2 /\ calls[p][1].empty /\ ~calls[p][2].empty
     /\ Len(resp[p].chartData.labels) = 10) =>
       /\ resp[p].dataSource = calls[p][2].ep
       /\ \A i \in 1..10 : StoredAs(p, resp[p].chartData, i, calls[p][2].ep)

\* C4 (as claimed): the adapters are called in one fixed order, whatever the
\* mode, each at most once, and only the last call made may have been used.
C4_OneFixedOrder ==
  \E order \in {<<"yahoo", "tiingo">>, <<"tiingo", "yahoo">>} :
    \A p \in Procs :
      req[p].kind = "cache" =>
        /\ IsPrefix(Endpoints(p), order)
        /\ \A i \in 1..(Len(calls[p]) - 1) : ~calls[p][i].usable

\* C4 (amended): the order is fixed per mode: /api/tiingo then /api/stocks
\* under forceRefresh, /api/stocks, /api/tiingo, /api/stocks again otherwise;
\* a call is made only after every earlier one gave nothing usable.
ModeOrder(force) ==
  IF force THEN <<"tiingo", "yahoo">> ELSE <<"yahoo", "tiingo", "yahoo">>
C4_OrderPerMode ==
  \A p \in Procs :
    req[p].kind = "cache" =>
      /\ IsPrefix(Endpoints(p), ModeOrder(req[p].forceRefresh))
      /\ \A i \in 1..(Len(calls[p]) - 1) : ~calls[p][i].usable
C4_Witness ==
  \E p \in Procs :
    /\ CacheDone(p) /\ ~req[p].forceRefresh
    /\ Endpoints(p) = <<"yahoo", "tiingo", "yahoo">>
    /\ calls[p][3].usable

\* the case of C5: a non-force 1m request on a cold cache, served by the first
\* call to /api/stocks with a series of 22 bars
ColdServed22(p) ==
  /\ CacheDone(p) /\ ~req[p].forceRefresh /\ req[p].timeRange = "1m"
  /\ ColdAtStart(p)
  /\ Len(calls[p]) = 1 /\ calls[p][1].ep = "yahoo" /\ calls[p][1].usable
  /\ Len(resp[p].chartData.labels) = 22

WarmRepeat(p) ==
  /\ CacheDone(p) /\ prev # None /\ prev.req = req[p] /\ ~req[p].forceRefresh
  /\ \/ prev.snap.symtab[req[p].symbol] = 0
     \/ /\ ~\E r \in prev.snap.daily : r.symbol_id = prev.snap.symtab[req[p].symbol]
        /\ ~\E r \in prev.snap.cache : r.symbol_id = prev.snap.symtab[req[p].symbol]

ServedByFirstCall ==
  /\ prev # None
  /\ Len(prev.calls) = 1 /\ prev.calls[1].ep = "yahoo" /\ prev.calls[1].usable
  /\ Len(prev.resp.chartData.labels) >= MinBars

BarValues(r) == <<r.open, r.high, r.low, r.close, r.adj_close, r.volume>>

\* C7: the values of a bar that existed when an operation started change in
\* a step of that operation only if it is a force-refresh (of the orchestrator
\* or of the sweeper) or the step is the zero-volume correction of saveToCache.
C7_ExistingBarsKept ==
  [][\A p \in Procs :
        pc'[p] # pc[p] =>
          \A r \in daily_prices : \A q \in daily_prices' :
            (/\ q.symbol_id = r.symbol_id /\ q.as_of_date = r.as_of_date
             /\ BarValues(q) # BarValues(r)
             /\ r \in snap[p].daily) =>
               \/ req[p].kind = "cache" /\ req[p].forceRefresh
               \/ req[p].kind = "force_refresh"
               \/ pc[p] = "sc_daily" /\ r.volume = 0 /\ r.as_of_date = etToday]_vars

\* C8: when saveToCache writes on a weekday (US Eastern) with a volume above 0
\* and the bar of (symbol, today) exists with volume 0, that row is updated in
\* place: it carries the new volume, and the symbol has as many bars as before.
C8_ZeroVolumeCorrection ==
  [][\A p \in Procs :
        (/\ pc[p] = "sc_daily" /\ pc'[p] # "sc_daily"
         /\ ~IsWeekend(etToday) /\ loc[p].stock.volume > 0
         /\ HasKey(daily_prices, loc[p].usid, etToday)
         /\ RowAt(daily_prices, loc[p].usid, etToday).volume = 0) =>
           /\ HasKey(daily_prices', loc[p].usid, etToday)
           /\ RowAt(daily_prices', loc[p].usid, etToday).volume = loc[p].stock.volume
           /\ RowAt(daily_prices', loc[p].usid, etToday).created_at
                 = RowAt(daily_prices, loc[p].usid, etToday).created_at
           /\ Cardinality({r \in daily_prices' : r.symbol_id = loc[p].usid})
                 = Cardinality({r \in daily_prices : r.symbol_id = loc[p].usid})]_vars
C8_Witness ==
  \E p \in Procs :
    /\ pc[p] = "sc_del" /\ req[p].kind = "cache"
    /\ loc[p].existing # None /\ loc[p].existing.volume = 0
    /\ ~IsWeekend(etToday) /\ loc[p].stock.volume > 0
    /\ RowAt(daily_prices, loc[p].usid, etToday).volume = loc[p].stock.volume
    /\ RowAt(daily_prices, loc[p].usid, etToday).source = loc[p].src

\* C9: when every provider call made gave no history, the response is the
\* bars of the window, ascending, marked daily_prices, if there is one, and
\* the error record with empty arrays if there is none.
C9_TotalFailure ==
  \A p \in Procs :
    (CacheDone(p) /\ calls[p] # <<>> /\ \A i \in 1..Len(calls[p]) : calls[p][i].empty) =>
       LET rows == SortByDate(RowsInRange(daily_prices, symtab[req[p].symbol],
                                 today - RequiredDays(req[p].timeRange), today))
       IN IF Len(rows) > 0
          THEN resp[p].dataSource = "daily_prices" /\ resp[p].chartData = HistChart(rows)
          ELSE resp[p].dataSource = "error" /\ resp[p].chartData = NoChart

\* C10: an upsert of bars into daily_prices, repeated later with the same
\* input, leaves the table as the first one left it.
C10_UpsertIdempotent ==
  [][\A p \in Procs :
        /\ (pc[p] = "up_write" /\ pc'[p] # "up_write") =>
              UpsertRows(daily_prices',
                  ChartRows(loc[p].usid, loc[p].chart, loc[p].src, UpsertDays), now + 1)
                = daily_prices'
        /\ (pc[p] = "sw_upsert" /\ pc'[p] # "sw_upsert") =>
              UpsertRows(daily_prices', SweepRows(loc[p].sid, loc[p].hist), now + 1)
                = daily_prices']_vars
C10_Witness ==
  \E p \in Procs :
    /\ pc[p] = "respond" /\ loc[p].ret = "up_sym" /\ loc[p].chart.labels # <<>>
    /\ \E r \in daily_prices :
          r.symbol_id = loc[p].usid /\ r.source = loc[p].src /\ r.created_at < now
    /\ \E r \in daily_prices :
          r.symbol_id = loc[p].usid /\ r.source = loc[p].src /\ r.created_at = now

\* C11: daily_prices never holds two bars with the same (symbol_id,
\* as_of_date), whatever the interleaving of requests and sweeper runs.
C11_OneBarPerKey ==
  \A r, q \in daily_prices :
     (r.symbol_id = q.symbol_id /\ r.as_of_date = q.as_of_date) => r = q
\* both invocations found no bar for today in saveToCache and both have written
C11_Witness ==
  /\ \A p \in Procs :
        /\ req[p].kind = "cache" /\ pc[p] = "sc_del"
        /\ loc[p].existing = None /\ loc[p].stock.volume > 0
        /\ loc[p].usid = loc[1].usid
  /\ ~IsWeekend(etToday)
  /\ Cardinality({r \in daily_prices :
                     r.symbol_id = loc[1].usid /\ r.as_of_date = etToday}) = 1

\* a bar without its created_at
BarOf(r) == <<r.symbol_id, r.as_of_date, BarValues(r), r.source>>
\* the last 20 entries of a returned chartData
Last20(cd) == {i \in 1..Len(cd.labels) : i > Len(cd.labels) - UpsertDays}
\* what one force-refresh that returned `record` leaves of `table` for symbol
\* sid: the last 20 bars of the series, and the bars of other dates untouched
AfterOneRefresh(table, sid, record) ==
  LET cd == record.chartData IN
  {<<sid, cd.labels[i], <<cd.open[i], cd.high[i], cd.low[i], cd.close[i], cd.close[i],
      cd.volume[i]>>, record.dataSource>> : i \in Last20(cd)}
  \cup {BarOf(r) : r \in {q \in table : /\ q.symbol_id = sid
                                         /\ \A i \in Last20(cd) : cd.labels[i] # q.as_of_date}}
\* a force-refresh served by a provider with a series that includes today's bar
ForceServed(p) ==
  /\ CacheDone(p) /\ req[p].forceRefresh
  /\ resp[p].dataSource \in {"tiingo", "yahoo"}
  /\ \E i \in Last20(resp[p].chartData) : resp[p].chartData.labels[i] = etToday

\* C12: a force-refresh alone, and two concurrent force-refreshes of one symbol
\* that got the same upstream data, end with the same bars for the symbol.
C12_ForceRefreshConverges ==
  \A p \in Procs : \A q \in Procs \ {p} :
    (/\ ForceServed(p)
     /\ \/ pc[q] = "idle"
        \/ ForceServed(q) /\ req[q].symbol = req[p].symbol /\ resp[q] = resp[p]) =>
       {BarOf(r) : r \in StoredBars(p)}
          = AfterOneRefresh(snap[p].daily, symtab[req[p].symbol], resp[p])
\* both started before either had written, and both have returned
C12_Witness ==
  /\ \A p \in Procs : ForceServed(p)
  /\ req[1].symbol = req[2].symbol /\ resp[1] = resp[2]
  /\ snap[1].daily = snap[2].daily
  /\ \E r \in snap[1].daily : r.symbol_id = symtab[req[1].symbol] /\ r \notin daily_prices

\* the PointQuote rows of a symbol
PointRows(sid) == {r \in price_cache : r.symbol_id = sid}

\* C13: when puts to price_cache do not overlap, each put (delete, then insert)
\* leaves exactly one PointQuote for its symbol, with the price and the source
\* of that put; so it is after the first put and after every later one.
C13_OnePointAfterPut ==
  [][\A p \in Procs :
        (pc[p] = "sc_ins" /\ pc'[p] # "sc_ins") =>
           \E r \in price_cache' :
              /\ {q \in price_cache' : q.symbol_id = loc[p].usid} = {r}
              /\ r.price = loc[p].stock.currentPrice
              /\ r.source = loc[p].src
              /\ r.as_of = now]_vars
\* the second of two consecutive puts, with another price than the first, is done
C13_Witness ==
  \E p \in Procs :
    /\ prev # None /\ ~prev.req.refreshDailyOnly
    /\ prev.resp.dataSource \in {"tiingo", "yahoo"}
    /\ CacheDone(p) /\ ~req[p].refreshDailyOnly
    /\ resp[p].dataSource \in {"tiingo", "yahoo"}
    /\ resp[p].currentPrice # prev.resp.currentPrice
    /\ Cardinality(PointRows(symtab[req[p].symbol])) = 1
    /\ \A r \in PointRows(symtab[req[p].symbol]) : r.price = resp[p].currentPrice

\* C14: price_cache never holds more than one PointQuote for a symbol, also
\* while puts for the symbol overlap.
C14_AtMostOnePoint ==
  \A sid \in 1..nextId : Cardinality(PointRows(sid)) <= 1

\* a request answered on the historical-sufficiency path: registered symbol, no
\* forceRefresh, no provider call
HistoricalPath(p) ==
  /\ CacheDone(p) /\ ~req[p].forceRefresh /\ SidAtStart(p) # 0 /\ calls[p] = <<>>
\* the PointQuote rows of the symbol when the request started
QuoteAtStart(p) == {q \in snap[p].cache : q.symbol_id = SidAtStart(p)}

\* C15: a PointQuote is stale exactly when now - observed_at >= 20 minutes: on
\* the historical-sufficiency path (refreshDailyOnly not set) the quote found at
\* the start is replaced exactly when it is 20 or more minutes old; one of 19
\* minutes is kept, one of 20 or of 21 minutes is replaced.
C15_StaleAtTwentyMinutes ==
  \A p \in Procs :
    (HistoricalPath(p) /\ ~req[p].refreshDailyOnly) =>
      \A q \in QuoteAtStart(p) :
        /\ (q \notin price_cache) <=> (now - q.as_of >= TwentyMinutes)
        /\ now - q.as_of = TwentyMinutes - 1 => q \in price_cache
        /\ now - q.as_of = TwentyMinutes + 1 => q \notin price_cache
C15_Witness ==
  \E p \in Procs :
    /\ HistoricalPath(p) /\ ~req[p].refreshDailyOnly
    /\ \E q \in QuoteAtStart(p) : now - q.as_of = TwentyMinutes /\ q \notin price_cache
    /\ \E r \in PointRows(SidAtStart(p)) : r.as_of = now

\* C16: on the historical-sufficiency path of a request without refreshDailyOnly,
\* when the PointQuote of the symbol was absent or stale at the start, price_cache
\* holds at completion a PointQuote of the symbol with the close of the latest bar
\* served and the time of the request; when it was fresh, price_cache is as it
\* was at the start.
C16_HistoricalPathRefreshesPoint ==
  \A p \in Procs :
    (HistoricalPath(p) /\ ~req[p].refreshDailyOnly) =>
      LET cd == resp[p].chartData IN
        IF \A q \in QuoteAtStart(p) : now - q.as_of >= TwentyMinutes
        THEN \E r \in PointRows(SidAtStart(p)) :
                r.price = cd.close[Len(cd.close)] /\ r.as_of = now
        ELSE price_cache = snap[p].cache
C16_Witness ==
  \E p \in Procs :
    /\ HistoricalPath(p) /\ ~req[p].refreshDailyOnly
    /\ QuoteAtStart(p) = {}
    /\ \E r \in PointRows(SidAtStart(p)) :
          r.price = resp[p].chartData.close[Len(resp[p].chartData.close)] /\ r.as_of = now

\* a non-force request for a registered symbol whose window was below the
\* sufficiency threshold while a PointQuote younger than 20 minutes existed
ThinWithFreshQuote(p) ==
  /\ CacheDone(p) /\ ~req[p].forceRefresh /\ SidAtStart(p) # 0
  /\ Cardinality(WindowAtStart(p)) * 10 <
        Min(RequiredDays(req[p].timeRange) * RatioTenths, MinBars * 10)
  /\ \E q \in QuoteAtStart(p) : now - q.as_of < TwentyMinutes

\* C17: a fresh PointQuote never satisfies a request: with the window below the
\* sufficiency threshold the orchestrator calls the providers, starting with
\* /api/stocks, and the response is the record of the provider that answered, or
\* the record built from the daily_prices rows, or the error record; none of
\* them is built from the PointQuote.
C17_FreshQuoteDoesNotServe ==
  \A p \in Procs :
    ThinWithFreshQuote(p) =>
      /\ calls[p] # <<>>
      /\ calls[p][1].ep = "yahoo"
      /\ LET last == calls[p][Len(calls[p])]
             rows == SortByDate(RowsInRange(daily_prices, SidAtStart(p),
                                   today - RequiredDays(req[p].timeRange), today))
         IN IF last.usable
            THEN \E r \in YahooResponses(today, feed) \cup TiingoResponses(today, feed) :
                   /\ UsableFirst(r)
                   /\ \E cd \in {Norm(r.body[1].chartData), AsIs(r.body[1].chartData)} :
                         resp[p] = ProviderRecord(req[p].symbol, StockFields(r.body[1]),
                                                  last.ep, cd)
            ELSE resp[p] = IF Len(rows) > 0
                             THEN HistRecord(req[p].symbol, rows, "daily_prices")
                           ELSE ErrorRecord(req[p].symbol)
C17_Witness ==
  \E p \in Procs :
    /\ ThinWithFreshQuote(p)
    /\ Len(calls[p]) = 3
    /\ resp[p].dataSource = "daily_prices"
    /\ price_cache = snap[p].cache

\* C18: an answer of a provider endpoint that carries a single quote point and
\* no historical series is never used by the orchestrator: the resolution goes on
\* to the next adapter, so the point is neither returned as chartData nor
\* written to daily_prices.
C18_QuotePointFallsThrough ==
  \A p \in Procs : \A i \in 1..Len(calls[p]) :
    calls[p][i].point => ~calls[p][i].usable

\* C19: a request with forceRefresh never takes the historical-sufficiency path:
\* whatever daily_prices and price_cache hold, it reads neither of them before
\* the providers are called, it goes from the lookup of the symbol straight to
\* the first provider call, and it does not complete without a provider call.
C19_ForceSkipsCacheChecks ==
  \A p \in Procs :
    (req[p].kind = "cache" /\ req[p].forceRefresh) =>
      /\ pc[p] \notin {"read_daily", "read_cache", "hist_return", "y1"}
      /\ loc[p].ret # "hist_return"
      /\ pc[p] = "tiingo" => (loc[p].daily = <<>> /\ loc[p].cached = None /\ calls[p] = <<>>)
      /\ pc[p] \notin {"idle", "lookup", "tiingo"} =>
            (calls[p] # <<>> /\ calls[p][1].ep = "tiingo")
C19_Witness ==
  \E p \in Procs :
    /\ CacheDone(p) /\ req[p].forceRefresh /\ SidAtStart(p) # 0
    /\ Cardinality(WindowAtStart(p)) >= MinBars
    /\ \E q \in QuoteAtStart(p) : now - q.as_of < TwentyMinutes
    /\ calls[p] # <<>>

\* a request (refreshDailyOnly not set) served by a provider that returned a
\* series of daily bars
ServedSeries(p) ==
  /\ CacheDone(p) /\ ~req[p].refreshDailyOnly /\ calls[p] # <<>>
  /\ LET last == calls[p][Len(calls[p])] IN last.usable /\ ~last.empty /\ ~last.point

\* C20: when a provider answered with a non-empty series of n bars, at completion
\* the most recent min(n, 20) bars of the series are in daily_prices with the
\* returned values, price_cache holds the returned latest price, and the
\* response carries the series; for every adapter, forced or not.
C20_EscalationStoresSeries ==
  \A p \in Procs :
    ServedSeries(p) =>
      LET cd == resp[p].chartData
          last == calls[p][Len(calls[p])]
      IN /\ Len(cd.labels) > 0
         /\ \A i \in Last20(cd) : StoredAs(p, cd, i, last.ep)
         /\ \E r \in PointRows(symtab[req[p].symbol]) : r.price = resp[p].currentPrice

\* the weekdays of [today - lookbackDays, today] for which daily_prices holds no
\* bar of the symbol
WeekdayGaps(sid, lookbackDays) ==
  {d \in (today - lookbackDays)..today :
      ~IsWeekend(d) /\ ~HasKey(daily_prices, sid, d)}

\* C26: checkDataGaps returns exactly the weekdays of [today - lookbackDays,
\* today] without a bar: the maintain run that calls it goes on with exactly
\* these dates as its missing dates, and reports up_to_date when there is none.
C26_GapsAreMissingWeekdays ==
  [][\A p \in Procs :
       (pc[p] = "sw_gaps" /\ pc'[p] # "sw_gaps") =>
          LET gaps == WeekdayGaps(loc[p].sid, SweepLookback) IN
            IF gaps = {} THEN pc'[p] = "done" /\ resp'[p].status = "up_to_date"
            ELSE pc'[p] = "sw_fetch" /\ loc'[p].missing = gaps]_vars

\* a maintain run of the sweeper for one symbol has returned without an error
MaintainDone(p) ==
  pc[p] = "done" /\ req[p].kind = "maintain" /\ resp[p].status # "error"
\* the weekdays of the look-back window that had no bar when the run started
GapsAtStart(p) ==
  {d \in (today - SweepLookback)..today :
      ~IsWeekend(d) /\ ~HasKey(snap[p].daily, SidAtStart(p), d)}
\* the rows that were not there when the run started
NewRows(p) == daily_prices \ snap[p].daily

\* C27: a maintain run writes only bars of the missing dates: every row that was
\* there before is unchanged, every new row is a bar of the symbol on a missing
\* weekday, and with exactly one weekday of the window missing exactly one row
\* is created.
C27_MaintainWritesOnlyGaps ==
  \A p \in Procs :
    MaintainDone(p) =>
      /\ snap[p].daily \subseteq daily_prices
      /\ \A r \in NewRows(p) :
            r.symbol_id = SidAtStart(p) /\ r.as_of_date \in GapsAtStart(p)
      /\ Cardinality(GapsAtStart(p)) = 1 => Cardinality(NewRows(p)) = 1

\* C29: forceRefreshSymbol never runs the gap detection: it fetches the last
\* SweepRefreshDays days and, when it reports force_refreshed, every bar the
\* provider returned is in daily_prices with the provider's values, whether or
\* not a bar of that date existed and whether or not the window had a gap.
C29_ForceRefreshBypassesGaps ==
  \A p \in Procs :
    req[p].kind = "force_refresh" =>
      /\ pc[p] # "sw_gaps"
      /\ loc[p].missing = {}
      /\ (pc[p] = "done" /\ resp[p].status = "force_refreshed") =>
            LET h == Historical(today - SweepRefreshDays, today, today, feed) IN
              /\ Len(calls[p]) = 1
              /\ resp[p].count = Len(h)
              /\ \A i \in 1..Len(h) :
                   \E r \in daily_prices :
                      /\ r.symbol_id = SidAtStart(p) /\ r.as_of_date = h[i].date
                      /\ BarValues(r) = <<h[i].open, h[i].high, h[i].low, h[i].close,
                                         h[i].adjClose, h[i].volume>>
                      /\ r.source = "yahoo_finance"
C29_Witness ==
  \E p \in Procs :
    /\ pc[p] = "done" /\ req[p].kind = "force_refresh" /\ resp[p].status = "force_refreshed"
    /\ GapsAtStart(p) = {}
    /\ \E r \in snap[p].daily : r.symbol_id = SidAtStart(p) /\ r \notin daily_prices

\* C25: the history fetch of an adapter never throws: for every answer of the
\* upstream service other than the bars, getTiingoData and the sweeper's
\* fetchYahooData hand an empty sequence to their caller and getTiingoQuote a
\* zeroed record; a sweeper run whose fetch failed goes on as with no bars and
\* does not end with status error.
C25_AdaptersNeverThrow ==
  /\ \A answer \in UpstreamAnswers \ {"rows"} :
       LET bars == FeedSeries(10, today, feed) IN
         /\ getTiingoData(answer, bars) = [threw |-> FALSE, data |-> <<>>]
         /\ getTiingoQuote(answer) = [threw |-> FALSE, data |-> NoStock]
         /\ fetchYahooData(answer, bars) = [threw |-> FALSE, data |-> <<>>]
  /\ \A p \in Procs :
       (pc[p] = "done" /\ req[p].kind \in SweepActions /\ calls[p] # <<>>
          /\ ~calls[p][Len(calls[p])].usable) => resp[p].status # "error"

\* C30: resolving a ticker succeeds while the database is reachable, in
\* saveToCache and in the sweeper's getSymbolId alike: the id of a registered
\* ticker is returned and the registry is unchanged, an unregistered ticker is
\* inserted and its new id returned; no two tickers share an id, and the id of
\* a ticker never changes.
C30_ResolveSucceeds ==
  [][/\ \A p \in Procs :
          /\ (pc[p] \in {"sc_sym", "sc_symins"} /\ pc'[p] \notin {"sc_sym", "sc_symins"}
                /\ ~storeDown) =>
                /\ loc'[p].usid # 0
                /\ loc'[p].usid = symtab'[req[p].symbol]
                /\ symtab[req[p].symbol] # 0 => symtab' = symtab
          /\ (pc[p] = "sw_verify" /\ pc'[p] # "sw_verify" /\ ~storeDown) =>
                /\ pc'[p] # "done"
                /\ loc'[p].sid # 0
                /\ loc'[p].sid = symtab'[req[p].symbol]
     /\ \A t \in Tickers : symtab[t] # 0 => symtab'[t] = symtab[t]
     /\ \A t, u \in Tickers : (t # u /\ symtab'[t] # 0) => symtab'[t] # symtab'[u]]_vars

\* the step of a sweeper or auto-update turn that ends the turn for its symbol
\* on a failure: an unresolved symbol id, or a provider call that threw (the
\* last attempt, in the auto-update)
TurnFails(p) ==
  \/ pc[p] \in {"sw_verify", "au_verify"} /\ pc'[p] = "done"
  \/ /\ pc[p] \in {"sw_fetch", "au_fetch"} /\ pc'[p] = "done"
     /\ ~calls'[p][Len(calls'[p])].usable

C23_InvalidRejectedBeforeIO ==
  [][(/\ batch.state = "none" /\ batch'.state # "none" /\ batch'.handler = "cache"
      /\ batch'.request.json
      /\ \/ batch'.request.symbols.kind # "list"
         \/ Len(batch'.request.symbols.items) = 0
         \/ batch'.request.timeRange = "missing") =>
        /\ batch'.state = "returned" /\ batch'.status = 400
        /\ UNCHANGED <<symtab, nextId, daily_prices, price_cache>>
        /\ UNCHANGED <<pc, req, calls>>
        /\ \A p \in Procs : pc[p] = "idle" /\ calls[p] = <<>>]_vars

\* a request with a list of symbols and no timeRange has been rejected
C23_Witness ==
  /\ batch.state = "returned" /\ batch.handler = "cache" /\ batch.status = 400
  /\ batch.request.symbols.kind = "list" /\ Len(batch.request.symbols.items) > 0
  /\ batch.request.timeRange = "missing"
  /\ \A p \in Procs : pc[p] = "idle" /\ calls[p] = <<>>

\* C24: a cache request handled while the database is unreachable is answered
\* as a request failure (status 500 or above), not with per-symbol records.
C24_StoreDownFailsRequest ==
  (/\ batch.state = "returned" /\ batch.handler = "cache"
   /\ batch.request.json
   /\ batch.request.symbols.kind = "list" /\ Len(batch.request.symbols.items) > 0
   /\ batch.request.timeRange # "missing"
   /\ storeDown) =>
     batch.status >= 500

\* the step of a resolution in which a provider call fails, or which ends the
\* resolution with an error record or with a record degraded to daily_prices
\* after every provider call failed
SymbolFails(p) ==
  \/ /\ Len(calls'[p]) = Len(calls[p]) + 1
     /\ ~calls'[p][Len(calls'[p])].usable
  \/ /\ pc[p] \in {"fb_sym", "fb_read"} /\ pc'[p] = "done"

\* C22: a valid cache request is answered with status 200 and a list holding,
\* for every requested symbol in request order, the record its resolution
\* returned; a resolution whose provider calls all failed returns an error
\* record or one degraded to daily_prices, and a failing step of one resolution
\* changes neither the state nor the record of the others, nor the stores, and
\* does not end the request.
C22_OneRecordPerSymbol ==
  [][/\ (batch.state = "running" /\ batch.handler = "cache" /\ batch'.state = "returned") =>
          /\ batch'.status = 200
          /\ Len(batch'.body) = Len(batch.request.symbols.items)
          /\ \A i \in 1..Len(batch'.body) :
                /\ batch'.body[i].symbol = batch.request.symbols.items[i]
                /\ batch'.body[i] = resp[i]
     /\ \A p \in Procs :
          (batch.state = "running" /\ batch.handler = "cache" /\ SymbolFails(p)) =>
             /\ batch' = batch
             /\ UNCHANGED <<symtab, nextId, daily_prices, price_cache>>
             /\ \A q \in Procs \ {p} :
                   pc'[q] = pc[q] /\ resp'[q] = resp[q] /\ loc'[q] = loc[q] /\ calls'[q] = calls[q]
             /\ pc'[p] = "done" =>
                   /\ resp'[p].symbol = req[p].symbol
                   /\ resp'[p].dataSource \in {"error", "daily_prices"}]_vars

\* a batch of two symbols has been answered: the first with an error record,
\* the second with a provider's data
C22_Witness ==
  /\ batch.state = "returned" /\ batch.handler = "cache" /\ batch.status = 200
  /\ Len(batch.body) = 2
  /\ batch.body[1].dataSource = "error"
  /\ batch.body[2].dataSource \in {"yahoo", "tiingo"}

\* C21: a cache request that was accepted is never stalled by a provider call
\* that does not complete: while it is not answered, either a resolution can
\* still take a step (the call is abandoned and the next adapter is tried) or
\* every resolution has returned its record and the response can be sent.
C21_BatchNeverStalls ==
  (batch.state = "running" /\ batch.handler = "cache") =>
     \/ \E i \in 1..Len(batch.symbols) : pc[i] \notin {"done", "pending"}
     \/ \A i \in 1..Len(batch.symbols) : pc[i] = "done"

\* the turn of an auto-update run for its symbol has ended, and its gap query
\* against daily_prices had failed
GapQueryFailed(p) ==
  /\ pc[p] = "done" /\ req[p].kind \in UpdateTypes
  /\ \E i \in 1..Len(calls[p]) : calls[p][i].ep = "daily_prices" /\ ~calls[p][i].usable

\* C33: in an auto-update run a symbol whose gap query failed is reported with
\* status 'error', never as 'up_to_date'.
C33_GapQueryFailureIsError ==
  \A p \in Procs : GapQueryFailed(p) => resp[p].status = "error"

\* the provider calls the turn of p has made
Attempts(p) == Len(SelectSeq(calls[p], LAMBDA c : c.ep = "yahoo_finance"))

\* C39: fetchDataWithRetry calls the provider at most maxRetries times; a call
\* that succeeds ends it without a further attempt; after a failed attempt
\* k < maxRetries it waits retryDelay * 2^(k-1) and tries again; the failure of
\* attempt maxRetries is raised without a wait (the turn ends with 'error'); it
\* is never waiting or about to call with maxRetries attempts behind it.
C39_RetryWithBackoff ==
  [][\A p \in SeqProcs :
       /\ (req[p].kind \in UpdateTypes /\ pc[p] \in {"au_fetch", "au_wait"}) =>
             Attempts(p) < maxRetries
       /\ (pc[p] = "au_fetch" /\ pc'[p] # "au_fetch") =>
             LET k == Attempts(p) + 1 IN
             /\ k <= maxRetries
             /\ Len(calls'[p]) = k /\ calls'[p][k].ep = "yahoo_finance"
             /\ \A i \in 1..(k - 1) : calls'[p][i] = calls[p][i]
             /\ calls'[p][k].usable =>
                   \/ pc'[p] = "au_upsert"
                   \/ pc'[p] = "done" /\ resp'[p].status = "no_data"
             /\ (~calls'[p][k].usable /\ k < maxRetries) =>
                   pc'[p] = "au_wait" /\ loc'[p].delay = retryDelay * Pow2(k - 1)
             /\ (~calls'[p][k].usable /\ k = maxRetries) =>
                   pc'[p] = "done" /\ resp'[p].status = "error"
       /\ (pc[p] = "au_wait" /\ pc'[p] # "au_wait") =>
             pc'[p] = "au_fetch" /\ calls'[p] = calls[p]]_vars

\* a turn went through two failed attempts and their pauses and got the data
\* at the third
C39_Witness ==
  \E p \in SeqProcs :
    /\ req[p].kind \in UpdateTypes /\ pc[p] \in {"au_upsert", "done"}
    /\ Attempts(p) = maxRetries
    /\ ~calls[p][1].usable /\ ~calls[p][2].usable /\ calls[p][3].usable

\* the step of saveToCache that decides on the write to daily_prices
SavesDaily(p) == pc[p] = "sc_daily" /\ pc'[p] # "sc_daily"

\* the keys of a table of daily bars
Keys(table) == {<<r.symbol_id, r.as_of_date>> : r \in table}

\* C34: saveToCache adds a bar only for (symbol, today in US Eastern time), and
\* only when no such bar exists, that day is not a Saturday or Sunday and the
\* supplied volume is above 0; when the bar exists with a volume other than 0,
\* or the supplied volume is 0, or the day is a weekend, daily_prices is
\* unchanged.
C34_SaveDailyInsertsOnlyNewTradingDay ==
  [][\A p \in Procs : SavesDaily(p) =>
       LET sid == loc[p].usid
           has == HasKey(daily_prices, sid, etToday)
       IN /\ Keys(daily_prices') # Keys(daily_prices) =>
                /\ ~has /\ ~IsWeekend(etToday) /\ loc[p].stock.volume > 0
                /\ Keys(daily_prices') = Keys(daily_prices) \cup {<<sid, etToday>>}
                /\ \A r \in daily_prices : r \in daily_prices'
          /\ (~has /\ ~IsWeekend(etToday) /\ loc[p].stock.volume > 0) =>
                HasKey(daily_prices', sid, etToday)
          /\ (\/ has /\ RowAt(daily_prices, sid, etToday).volume # 0
              \/ loc[p].stock.volume = 0
              \/ IsWeekend(etToday)) =>
                daily_prices' = daily_prices]_vars

\* saveToCache has just inserted today's bar
C34_Witness ==
  \E p \in Procs :
    /\ pc[p] = "sc_del"
    /\ HasKey(daily_prices, loc[p].usid, etToday)
    /\ ~HasKey(snap[p].daily, loc[p].usid, etToday)
    /\ Cardinality(daily_prices) = Cardinality(snap[p].daily) + 1

\* C35: a request answered on the historical-sufficiency path leaves
\* daily_prices as it was, also when it refreshes the point cache and the bar
\* of today is stored with volume 0.
C35_HistoricalPathKeepsDaily ==
  \A p \in Procs : HistoricalPath(p) => daily_prices = snap[p].daily

\* the path was taken on a trading day whose bar has volume 0, and the stale or
\* absent PointQuote was replaced
C35_Witness ==
  \E p \in Procs :
    /\ HistoricalPath(p) /\ ~req[p].refreshDailyOnly
    /\ ~IsWeekend(etToday)
    /\ HasKey(snap[p].daily, SidAtStart(p), etToday)
    /\ RowAt(snap[p].daily, SidAtStart(p), etToday).volume = 0
    /\ \A q \in QuoteAtStart(p) : q \notin price_cache
    /\ \E r \in price_cache : r.symbol_id = SidAtStart(p) /\ r.as_of = now

\* C36: a request with refreshDailyOnly leaves price_cache unchanged in every
\* step and on every path, whatever PointQuote the symbol has.
C36_DailyOnlyKeepsPointCache ==
  [][\A p \in Procs :
       (req[p].kind = "cache" /\ req[p].refreshDailyOnly /\ pc[p] # pc'[p]
          /\ pc[p] \notin {"idle", "done"}) =>
            /\ price_cache' = price_cache
            /\ pc'[p] = "done" => price_cache' = snap[p].cache]_vars

\* such a request was served by a provider and stored bars while the symbol's
\* PointQuote was stale
C36_Witness ==
  \E p \in Procs :
    /\ CacheDone(p) /\ req[p].refreshDailyOnly
    /\ resp[p].dataSource \in {"yahoo", "tiingo"}
    /\ daily_prices # snap[p].daily
    /\ QuoteAtStart(p) # {}
    /\ \A q \in QuoteAtStart(p) : now - q.as_of >= TwentyMinutes /\ q \in price_cache

\* C37: for a registered symbol and without forceRefresh, the path depends only
\* on the number of bars in the requested window: with at least
\* min(0.7 * requiredDays, 10) bars the request is served without a provider
\* call, whatever their dates, and with fewer a provider is called.
C37_SufficiencyCountsBars ==
  \A p \in Procs :
    (CacheDone(p) /\ ~req[p].forceRefresh /\ SidAtStart(p) # 0) =>
      ((calls[p] = <<>>) <=>
         (Cardinality(WindowAtStart(p)) * 10 >=
            Min(RequiredDays(req[p].timeRange) * RatioTenths, MinBars * 10)))

\* ten bars, the latest of them two weeks old, were served without a provider call
C37_Witness ==
  \E p \in Procs :
    /\ CacheDone(p) /\ ~req[p].forceRefresh /\ SidAtStart(p) # 0
    /\ Cardinality(WindowAtStart(p)) = MinBars
    /\ \A r \in WindowAtStart(p) : r.as_of_date <= today - 14
    /\ calls[p] = <<>>
    /\ resp[p].chartData.labels[MinBars] = today - 14

\* the symbol ids with a row in a point cache
Quoted(cache) == {r.symbol_id : r \in cache}

\* C38: a put into price_cache never loses the symbol's quote: a symbol that
\* has a PointQuote keeps one in every step, and a request that reads the point
\* cache of a symbol that had a PointQuote when the request started finds one.
C38_PutKeepsQuote ==
  [][/\ Quoted(price_cache) \subseteq Quoted(price_cache')
     /\ \A q \in Procs :
          (pc[q] = "read_cache" /\ pc'[q] # "read_cache" /\ QuoteAtStart(q) # {}) =>
             LatestQuote(price_cache, loc[q].sid, now) # None]_vars

\* C32: the upsert of a maintain run only creates rows: every row that is in
\* daily_prices when the upsert runs is there unchanged afterwards, also a bar
\* of a missing date that a request wrote after the run had looked for gaps.
C32_MaintainUpsertKeepsRows ==
  [][\A p \in Procs :
       (pc[p] = "sw_upsert" /\ pc'[p] # "sw_upsert" /\ req[p].kind = "maintain") =>
          \A r \in daily_prices : r \in daily_prices']_vars

\* the dates of the look-back window the provider has a bar for
ProviderDates ==
  LET h == Historical(today - SweepLookback, today, today, feed)
  IN {h[i].date : i \in 1..Len(h)}

\* C31: gaps are healed: when a maintain run for a symbol has completed without
\* an error, every weekday of the look-back window that had no bar when the run
\* started and that the provider has a bar for has a bar now, so that the next
\* gap detection does not report it.
C31_MaintainHealsGaps ==
  \A p \in Procs :
    MaintainDone(p) =>
      \A d \in GapsAtStart(p) \cap ProviderDates :
         /\ HasKey(daily_prices, SidAtStart(p), d)
         /\ d \notin WeekdayGaps(SidAtStart(p), SweepLookback)
====
